---- MODULE Spec2Model ----
(***************************************************************************)
(* A model of the falling-block rules engine: the Board (grid, row/column  *)
(* scores, placement test, commit, drop search, row clearing), the piece   *)
(* catalog, the Timer and the BoardInstance state machine.                 *)
(*                                                                         *)
(* Option<T> is modelled as a sequence: <<>> is None, <<v>> is Some(v).    *)
(* Vec<T> indices are 0-based in the program; grid, row_score and          *)
(* col_score are functions over 0..n-1, the piece tables are sequences     *)
(* (1-based), so rotation r of the program is element r+1.                 *)
(* Time is counted in whole seconds.                                       *)
(***************************************************************************)
EXTENDS Integers, Sequences, FiniteSets, TLC

VARIABLES
    width,            \* Board.width
    height,           \* Board.height
    state,            \* Board.state : BoardState
    backup_state,     \* Board.backup_state : BoardState
    saved_state,      \* Board.saved_state : Option<BoardState>
    game_state,       \* BoardInstance.game_state
    prev_game_state,  \* BoardInstance.prev_game_state : Option<GameState>
    timers,           \* BoardInstance.timers : GameTimers
    rows_to_clear,    \* BoardInstance.rows_to_clear : Option<Vec<isize>>
    active_piece,     \* BoardInstance.active_piece : Option<PieceInstance>
    call,             \* the last call made on the object under test, with its result
    ncalls            \* how many mutating calls / spawns the run has made (bounded)

vars == <<width, height, state, backup_state, saved_state, game_state,
          prev_game_state, timers, rows_to_clear, active_piece, call, ncalls>>

(***************************************************************************)
(* Bounds of the model.                                                    *)
(***************************************************************************)
\* board used by the Board-level scenarios
BoardWidth == 4
BoardHeight == 4
\* commits per Board-level scenario
MaxCommits == 2
\* try_place is queried on boards built by at most this many commits
MaxQueryCommits == 1
\* commits per scenario of commits and clears only
MaxClearCommits == 4
\* sizes of the empty boards pieces are dropped onto
MaxEmptyWidth == 5
MaxEmptyHeight == 5

None == <<>>
Some(v) == <<v>>

Min2(a, b) == IF a < b THEN a ELSE b
Max2(a, b) == IF a > b THEN a ELSE b

(***************************************************************************)
(* Piece catalog (models/piece.rs)                                         *)
(***************************************************************************)
\* PieceType::ALL
ALL == <<"I", "J", "L", "S", "Z", "T", "O">>

PieceTypes == {ALL[i] : i \in 1..Len(ALL)}

I_ROTATIONS ==
    << << <<0, 0>>, <<1, 0>>, <<2, 0>>, <<3, 0>> >>,
       << <<2, 0>>, <<2, 1>>, <<2, 2>>, <<2, 3>> >>,
       << <<0, 1>>, <<1, 1>>, <<2, 1>>, <<3, 1>> >>,
       << <<1, 0>>, <<1, 1>>, <<1, 2>>, <<1, 3>> >> >>

J_ROTATIONS ==
    << << <<0, 0>>, <<0, 1>>, <<1, 1>>, <<2, 1>> >>,
       << <<1, 0>>, <<2, 0>>, <<1, 1>>, <<1, 2>> >>,
       << <<0, 1>>, <<1, 1>>, <<2, 1>>, <<2, 2>> >>,
       << <<1, 0>>, <<1, 1>>, <<0, 2>>, <<1, 2>> >> >>

L_ROTATIONS ==
    << << <<0, 1>>, <<1, 1>>, <<2, 1>>, <<2, 0>> >>,
       << <<1, 0>>, <<1, 1>>, <<1, 2>>, <<2, 2>> >>,
       << <<0, 1>>, <<0, 2>>, <<1, 1>>, <<2, 1>> >>,
       << <<0, 0>>, <<1, 0>>, <<1, 1>>, <<1, 2>> >> >>

S_ROTATIONS ==
    << << <<1, 0>>, <<2, 0>>, <<0, 1>>, <<1, 1>> >>,
       << <<1, 0>>, <<1, 1>>, <<2, 1>>, <<2, 2>> >>,
       << <<1, 1>>, <<2, 1>>, <<0, 2>>, <<1, 2>> >>,
       << <<0, 0>>, <<0, 1>>, <<1, 1>>, <<1, 2>> >> >>

Z_ROTATIONS ==
    << << <<0, 0>>, <<1, 0>>, <<1, 1>>, <<2, 1>> >>,
       << <<2, 0>>, <<1, 1>>, <<2, 1>>, <<1, 2>> >>,
       << <<0, 1>>, <<1, 1>>, <<1, 2>>, <<2, 2>> >>,
       << <<1, 0>>, <<0, 1>>, <<1, 1>>, <<0, 2>> >> >>

T_ROTATIONS ==
    << << <<0, 1>>, <<1, 1>>, <<2, 1>>, <<1, 0>> >>,
       << <<1, 0>>, <<1, 1>>, <<1, 2>>, <<2, 1>> >>,
       << <<0, 1>>, <<1, 1>>, <<2, 1>>, <<1, 2>> >>,
       << <<0, 1>>, <<1, 0>>, <<1, 1>>, <<1, 2>> >> >>

O_ROTATIONS ==
    << << <<0, 0>>, <<1, 0>>, <<0, 1>>, <<1, 1>> >>,
       << <<0, 0>>, <<1, 0>>, <<0, 1>>, <<1, 1>> >>,
       << <<0, 0>>, <<1, 0>>, <<0, 1>>, <<1, 1>> >>,
       << <<0, 0>>, <<1, 0>>, <<0, 1>>, <<1, 1>> >> >>

rotations(typ) ==
    CASE typ = "I" -> I_ROTATIONS
      [] typ = "J" -> J_ROTATIONS
      [] typ = "L" -> L_ROTATIONS
      [] typ = "S" -> S_ROTATIONS
      [] typ = "Z" -> Z_ROTATIONS
      [] typ = "T" -> T_ROTATIONS
      [] typ = "O" -> O_ROTATIONS

rotation_count(typ) == Len(rotations(typ))

get_rotation(typ, rot_idx) == rotations(typ)[(rot_idx % rotation_count(typ)) + 1]

from_idx(i) == ALL[(i % Len(ALL)) + 1]

\* stand-in for isize::MAX, the placeholder skirt() starts from
ISIZE_MAX == 2147483647

\* stand-in for isize::MIN, the value calculate_drop starts its maximum from
ISIZE_MIN == -2147483647

RECURSIVE min_x_from(_, _, _)
min_x_from(cs, k, acc) ==
    IF k > Len(cs) THEN acc ELSE min_x_from(cs, k + 1, Min2(acc, cs[k][1]))

RECURSIVE max_x_from(_, _, _)
max_x_from(cs, k, acc) ==
    IF k > Len(cs) THEN acc ELSE max_x_from(cs, k + 1, Max2(acc, cs[k][1]))

RECURSIVE max_y_from(_, _, _)
max_y_from(cs, k, acc) ==
    IF k > Len(cs) THEN acc ELSE max_y_from(cs, k + 1, Max2(acc, cs[k][2]))

\* (min, max) of the x offsets of a rotation
minmax_x(typ, rot_idx) ==
    LET cs == get_rotation(typ, rot_idx)
    IN  <<min_x_from(cs, 2, cs[1][1]), max_x_from(cs, 2, cs[1][1])>>

max_x(typ, rot_idx) ==
    LET cs == get_rotation(typ, rot_idx) IN max_x_from(cs, 2, cs[1][1])

max_y(typ, rot_idx) ==
    LET cs == get_rotation(typ, rot_idx) IN max_y_from(cs, 2, cs[1][2])

RECURSIVE skirt_from(_, _, _, _)
skirt_from(cs, k, lo, acc) ==
    IF k > Len(cs) THEN acc
    ELSE LET index == (cs[k][1] - lo) + 1
         IN  skirt_from(cs, k + 1, lo,
                        IF cs[k][2] < acc[index]
                        THEN [acc EXCEPT ![index] = cs[k][2]]
                        ELSE acc)

\* variant of skirt indexed by the x offset itself, from 0, not from min_x
skirt_unshifted(typ, rot_idx) ==
    LET mm == minmax_x(typ, rot_idx)
        w  == mm[2] + 1
    IN  skirt_from(get_rotation(typ, rot_idx), 1, 0, [i \in 1..w |-> ISIZE_MAX])

\* element i+1 is the lowest y offset of the cells at x offset min_x + i
skirt(typ, rot_idx) ==
    LET mm == minmax_x(typ, rot_idx)
        w  == (mm[2] - mm[1]) + 1
    IN  skirt_from(get_rotation(typ, rot_idx), 1, mm[1], [i \in 1..w |-> ISIZE_MAX])

(***************************************************************************)
(* PieceInstance (views/piece_instance.rs)                                 *)
(***************************************************************************)
BoardPosition(px, py) == [x |-> px, y |-> py]

\* PieceInstance::new : rotation index 0
NewPiece(typ, position) == [typ |-> typ, rot_idx |-> 0, position |-> position]

cells(piece) == get_rotation(piece.typ, piece.rot_idx)

cell_pos(board_pos, c) == BoardPosition(board_pos.x + c[1], board_pos.y + c[2])

board_test_positions(piece, test_pos) ==
    {cell_pos(test_pos, cells(piece)[k]) : k \in 1..Len(cells(piece))}

board_positions(piece) == board_test_positions(piece, piece.position)

(***************************************************************************)
(* BoardState (models/board.rs)                                            *)
(***************************************************************************)
NewBoardState(w, h) ==
    [grid      |-> [i \in 0..(w * h - 1) |-> FALSE],
     row_score |-> [y \in 0..(h - 1) |-> 0],
     col_score |-> [x \in 0..(w - 1) |-> 0]]

reset_row_score(s, row) == [s EXCEPT !.row_score[row] = 0]

update_row_score(s, pos) == [s EXCEPT !.row_score[pos.y] = @ + 1]

\* variant of update_col_score with a strict comparison: a cell at exactly
\* the column's height does not raise it
update_col_score_strict(s, pos) ==
    IF pos.y > s.col_score[pos.x]
    THEN [s EXCEPT !.col_score[pos.x] = pos.y + 1]
    ELSE s

update_col_score(s, pos) ==
    IF pos.y >= s.col_score[pos.x]
    THEN [s EXCEPT !.col_score[pos.x] = pos.y + 1]
    ELSE s

(***************************************************************************)
(* Board (models/board.rs).  The operators take the BoardState, or the     *)
(* Board record [state, backup_state, saved_state] where the method        *)
(* touches more than the live state, and return what the method leaves.    *)
(***************************************************************************)
Board == [state |-> state, backup_state |-> backup_state, saved_state |-> saved_state]

\* row-ordered 2D to 1D indexing; None when out of the grid
idx(x, y) ==
    IF x < 0 \/ y < 0 \/ x >= width \/ y >= height
    THEN None
    ELSE Some(y * width + x)

\* variant of is_cell_filled that answers true outside the grid
is_cell_filled_or_true(s, pos) ==
    LET i == idx(pos.x, pos.y)
    IN  IF i = None THEN TRUE ELSE s.grid[i[1]]

is_cell_filled(s, pos) ==
    LET i == idx(pos.x, pos.y)
    IN  IF i = None THEN FALSE ELSE s.grid[i[1]]

row_score(s, row) ==
    IF row >= height \/ row < 0 THEN None ELSE Some(s.row_score[row])

col_score(s, col) ==
    IF col >= width \/ col < 0 THEN None ELSE Some(s.col_score[col])

\* variant of fill_cell that reports RowFilled one cell before the row is full
fill_cell_early(s, pos) ==
    LET i == idx(pos.x, pos.y)
    IN  IF i = None
        THEN [state |-> s, result |-> "OutOfBounds"]
        ELSE LET s1 == [s EXCEPT !.grid[i[1]] = TRUE]
                 s2 == update_col_score(s1, pos)
                 s3 == update_row_score(s2, pos)
             IN  [state  |-> s3,
                  result |-> IF s3.row_score[pos.y] >= width - 1
                             THEN "RowFilled" ELSE "PlaceOk"]

\* fill one cell and update the scores; reports whether the row became full
fill_cell(s, pos) ==
    LET i == idx(pos.x, pos.y)
    IN  IF i = None
        THEN [state |-> s, result |-> "OutOfBounds"]
        ELSE LET s1 == [s EXCEPT !.grid[i[1]] = TRUE]
                 s2 == update_col_score(s1, pos)
                 s3 == update_row_score(s2, pos)
             IN  [state  |-> s3,
                  result |-> IF s3.row_score[pos.y] = width
                             THEN "RowFilled" ELSE "PlaceOk"]

\* variant of check_cells without the bounds test: only occupancy is checked
RECURSIVE check_cells_unbounded(_, _, _, _)
check_cells_unbounded(s, cs, board_pos, k) ==
    IF k > Len(cs) THEN "Clear"
    ELSE IF is_cell_filled(s, cell_pos(board_pos, cs[k])) THEN "PlaceBad"
    ELSE check_cells_unbounded(s, cs, board_pos, k + 1)

\* the bounds / occupancy loop of try_place: the verdict of the first
\* offending cell in cell order, "Clear" when no cell offends
RECURSIVE check_cells(_, _, _, _)
check_cells(s, cs, board_pos, k) ==
    IF k > Len(cs) THEN "Clear"
    ELSE LET p == cell_pos(board_pos, cs[k])
         IN  IF idx(p.x, p.y) = None THEN "OutOfBounds"
             ELSE IF is_cell_filled(s, p) THEN "PlaceBad"
             ELSE check_cells(s, cs, board_pos, k + 1)

\* iter().any(fill_cell == RowFilled): stops at the first cell that fills a row
RECURSIVE fills_row_from(_, _, _)
fills_row_from(s, piece, k) ==
    IF k > Len(cells(piece)) THEN [state |-> s, filled |-> FALSE]
    ELSE LET r == fill_cell(s, cell_pos(piece.position, cells(piece)[k]))
         IN  IF r.result = "RowFilled"
             THEN [state |-> r.state, filled |-> TRUE]
             ELSE fills_row_from(r.state, piece, k + 1)

\* variant of fills_row that also answers true for a row left two cells short
fills_row_short(s, piece) ==
    LET r == fills_row_from(s, piece, 1)
    IN  [state  |-> r.state,
         filled |-> r.filled \/ \E y \in DOMAIN r.state.row_score :
                                   r.state.row_score[y] >= width - 2]

fills_row(s, piece) == fills_row_from(s, piece, 1)

\* variant of try_place without the swap back: the test fill stays live
try_place_noswap(b, piece, board_pos) ==
    LET verdict == check_cells(b.state, cells(piece), board_pos, 1)
    IN  IF verdict # "Clear"
        THEN [board |-> b, result |-> verdict]
        ELSE LET test == fills_row(b.state, [piece EXCEPT !.position = board_pos])
             IN  [board  |-> [b EXCEPT !.state = test.state, !.backup_state = b.state],
                  result |-> IF test.filled THEN "RowFilled" ELSE "PlaceOk"]

\* try_place: the live state is cloned into backup_state, the piece is
\* filled into the live state, and the two are swapped back
try_place(b, piece, board_pos) ==
    LET verdict == check_cells(b.state, cells(piece), board_pos, 1)
    IN  IF verdict # "Clear"
        THEN [board |-> b, result |-> verdict]
        ELSE LET cloned == b.state
                 test   == fills_row(b.state, [piece EXCEPT !.position = board_pos])
             IN  [board  |-> [b EXCEPT !.state = cloned, !.backup_state = test.state],
                  result |-> IF test.filled THEN "RowFilled" ELSE "PlaceOk"]

\* variant of commit_cells that reports only the first completed row
RECURSIVE commit_cells_first(_, _, _, _)
commit_cells_first(s, piece, k, rows) ==
    IF k > Len(cells(piece)) THEN [state |-> s, rows |-> rows]
    ELSE LET p == cell_pos(piece.position, cells(piece)[k])
             r == fill_cell(s, p)
         IN  commit_cells_first(r.state, piece, k + 1,
                                IF r.result = "RowFilled" /\ rows = <<>>
                                THEN Append(rows, p.y) ELSE rows)

RECURSIVE commit_cells(_, _, _, _)
commit_cells(s, piece, k, rows) ==
    IF k > Len(cells(piece)) THEN [state |-> s, rows |-> rows]
    ELSE LET p == cell_pos(piece.position, cells(piece)[k])
             r == fill_cell(s, p)
         IN  commit_cells(r.state, piece, k + 1,
                          IF r.result = "RowFilled" THEN Append(rows, p.y) ELSE rows)

\* commit all cells of the piece; Some(rows filled) or None
commit_piece(s, piece) ==
    LET r == commit_cells(s, piece, 1, <<>>)
    IN  [state |-> r.state,
         rows  |-> IF r.rows = <<>> THEN None ELSE Some(r.rows)]

(***************************************************************************)
(* Piece drop                                                              *)
(***************************************************************************)
\* variant of is_below_overhang that never sees an overhang
is_below_overhang_never(s, piece) ==
    \E k \in 1..Len(cells(piece)) :
        LET p  == cell_pos(piece.position, cells(piece)[k])
            sc == col_score(s, p.x)
        IN  sc # None /\ p.y < 0

is_below_overhang(s, piece) ==
    \E k \in 1..Len(cells(piece)) :
        LET p  == cell_pos(piece.position, cells(piece)[k])
            sc == col_score(s, p.x)
        IN  sc # None /\ p.y < sc[1] - 1

\* step down one row at a time until try_place fails
RECURSIVE slow_drop_from(_, _, _, _, _)
slow_drop_from(b, piece, test_pos, last_valid_pos, last_result) ==
    LET next_pos == BoardPosition(test_pos.x, test_pos.y - 1)
        r        == try_place(b, piece, next_pos)
    IN  IF r.result \in {"PlaceOk", "RowFilled"}
        THEN slow_drop_from(r.board, piece, next_pos, next_pos, r.result)
        ELSE [board |-> r.board, pos |-> last_valid_pos, result |-> last_result]

slow_calculate_drop(b, piece) ==
    slow_drop_from(b, piece, piece.position, piece.position, "PlaceOk")

\* The loop of verify_drop_location.  Every cell offset is >= 0, so once
\* pos.y >= height every later try is OutOfBounds and the loop never returns
\* a position (it runs until pos.y overflows): "NoReturn".
RECURSIVE verify_from(_, _, _)
verify_from(b, piece, pos) ==
    LET r == try_place(b, piece, pos)
    IN  IF r.result \in {"PlaceOk", "RowFilled"}
        THEN [board |-> r.board, pos |-> pos, result |-> r.result]
        ELSE IF pos.y >= height
        THEN [board |-> r.board, pos |-> pos, result |-> "NoReturn"]
        ELSE verify_from(r.board, piece, BoardPosition(pos.x, pos.y + 1))

\* Tries below -max_y all fail on a cell under the floor and change nothing,
\* so the climb from there is started at -max_y.
verify_drop_location(b, piece, pos) ==
    verify_from(b, piece,
                BoardPosition(pos.x, Max2(pos.y, 0 - max_y(piece.typ, piece.rot_idx))))

\* variant of max_required_y_from that adds the skirt instead of subtracting it
RECURSIVE max_required_y_plus(_, _, _, _, _, _)
max_required_y_plus(s, piece, sk, mm, x_offset, acc) ==
    IF x_offset > mm[2] - mm[1] THEN acc
    ELSE LET board_x == piece.position.x + mm[1] + x_offset
         IN  IF board_x < 0 \/ board_x >= width
             THEN max_required_y_plus(s, piece, sk, mm, x_offset + 1, acc)
             ELSE LET sc         == col_score(s, board_x)
                      score      == IF sc = None THEN 0 ELSE sc[1]
                      required_y == score + sk[x_offset + 1]
                  IN  max_required_y_plus(s, piece, sk, mm, x_offset + 1,
                                          IF required_y > acc THEN required_y ELSE acc)

\* the loop of calculate_drop: the maximum, over the piece's columns that are
\* inside the grid, of col_score - skirt
RECURSIVE max_required_y_from(_, _, _, _, _, _)
max_required_y_from(s, piece, sk, mm, x_offset, acc) ==
    IF x_offset > mm[2] - mm[1] THEN acc
    ELSE LET board_x == piece.position.x + mm[1] + x_offset
         IN  IF board_x < 0 \/ board_x >= width
             THEN max_required_y_from(s, piece, sk, mm, x_offset + 1, acc)
             ELSE LET skirt_val  == sk[x_offset + 1]
                      sc         == col_score(s, board_x)
                      score      == IF sc = None THEN 0 ELSE sc[1]
                      required_y == IF score = 0 THEN 0 - skirt_val
                                    ELSE score - skirt_val
                  IN  max_required_y_from(s, piece, sk, mm, x_offset + 1,
                                          IF required_y > acc THEN required_y ELSE acc)

\* the lowest legal place for the piece in its current x position
calculate_drop(b, piece) ==
    IF is_below_overhang(b.state, piece)
    THEN slow_calculate_drop(b, piece)
    ELSE LET sk == skirt(piece.typ, piece.rot_idx)
             mm == minmax_x(piece.typ, piece.rot_idx)
         IN  verify_drop_location(b, piece,
                 BoardPosition(piece.position.x,
                               max_required_y_from(b.state, piece, sk, mm, 0, ISIZE_MIN)))

(***************************************************************************)
(* Row clearing                                                            *)
(***************************************************************************)
\* rows.sort_by(|a, b| b.cmp(a)) : descending
RECURSIVE insert_desc(_, _)
insert_desc(sorted, v) ==
    IF sorted = <<>> THEN <<v>>
    ELSE IF v >= Head(sorted) THEN <<v>> \o sorted
    ELSE <<Head(sorted)>> \o insert_desc(Tail(sorted), v)

RECURSIVE sort_desc(_)
sort_desc(rows) ==
    IF rows = <<>> THEN <<>> ELSE insert_desc(sort_desc(Tail(rows)), Head(rows))

SeqRange(q) == {q[i] : i \in 1..Len(q)}

SetMin(S) == CHOOSE v \in S : \A u \in S : v <= u
SetMax(S) == CHOOSE v \in S : \A u \in S : v >= u

\* clear a row completely
clear_row(s, row) ==
    LET g == [i \in DOMAIN s.grid |->
                 IF \E x \in 0..(width - 1) : idx(x, row) = Some(i)
                 THEN FALSE ELSE s.grid[i]]
        s1 == [s EXCEPT !.grid = g]
    IN  IF row >= 0 /\ row < height THEN reset_row_score(s1, row) ELSE s1

\* variant of slide_row_down that copies the cells but not the row score
slide_row_down_cells(s, row, slide_val) ==
    LET target_y == row - slide_val
        s1 == clear_row(s, target_y)
        g  == [i \in DOMAIN s1.grid |->
                 IF \E x \in 0..(width - 1) : idx(x, target_y) = Some(i)
                 THEN is_cell_filled(s1, BoardPosition(i % width, row))
                 ELSE s1.grid[i]]
    IN  [s1 EXCEPT !.grid = g]

\* slide one row down by slide_val, copying grid cells and row score
slide_row_down(s, row, slide_val) ==
    LET target_y == row - slide_val
        s1 == clear_row(s, target_y)
        g  == [i \in DOMAIN s1.grid |->
                 IF \E x \in 0..(width - 1) : idx(x, target_y) = Some(i)
                 THEN is_cell_filled(s1, BoardPosition(i % width, row))
                 ELSE s1.grid[i]]
        s2 == [s1 EXCEPT !.grid = g]
    IN  IF row < height /\ target_y >= 0
        THEN [s2 EXCEPT !.row_score[target_y] = s2.row_score[row]]
        ELSE s2

\* first loop of handle_sliding: uncleared rows inside the cleared range
RECURSIVE slide_between(_, _, _, _)
slide_between(s, cleared_rows, row, max_cleared) ==
    IF row >= max_cleared THEN s
    ELSE IF row \in SeqRange(cleared_rows)
    THEN slide_between(s, cleared_rows, row + 1, max_cleared)
    ELSE LET slide_val == Cardinality({i \in 1..Len(cleared_rows) : row > cleared_rows[i]})
         IN  slide_between(slide_row_down(s, row, slide_val), cleared_rows, row + 1, max_cleared)

\* second loop of handle_sliding: rows above the cleared range
RECURSIVE slide_above(_, _, _, _)
slide_above(s, row, highest_filled_row, count) ==
    IF row >= highest_filled_row THEN s
    ELSE slide_above(clear_row(slide_row_down(s, row, count), row),
                     row + 1, highest_filled_row, count)

handle_sliding(s, cleared_rows) ==
    IF cleared_rows = <<>> THEN s
    ELSE LET highest_filled_row == SetMax({s.col_score[x] : x \in DOMAIN s.col_score})
             min_cleared == SetMin(SeqRange(cleared_rows))
             max_cleared == SetMax(SeqRange(cleared_rows))
             count       == Len(cleared_rows)
             s1 == slide_between(s, cleared_rows, min_cleared, max_cleared)
         IN  slide_above(s1, max_cleared + 1, highest_filled_row, count)

\* scan down from start_y for the highest filled cell of column x
RECURSIVE scan_height(_, _, _)
scan_height(s, x, y) ==
    IF y < 0 THEN 0
    ELSE IF is_cell_filled(s, BoardPosition(x, y)) THEN y + 1
    ELSE scan_height(s, x, y - 1)

\* recalculate col_score after sliding / clearing
adjust_col_scores(s, lowest_cleared_row) ==
    [s EXCEPT !.col_score =
        [x \in DOMAIN s.col_score |->
            IF s.col_score[x] > 0
            THEN scan_height(s, x, Max2(s.col_score[x] - 1, lowest_cleared_row))
            ELSE s.col_score[x]]]

clear_rows(s, rows) ==
    LET sorted_rows == sort_desc(rows)
        s1 == handle_sliding(s, sorted_rows)
    IN  IF sorted_rows = <<>> THEN s1
        ELSE adjust_col_scores(s1, sorted_rows[Len(sorted_rows)])

midpoint_x == width \div 2

\* variant of save_state that stores the scratch copy instead of the live state
save_state_scratch(b) == [b EXCEPT !.saved_state = Some(b.backup_state)]

\* save_state / resume_state
save_state(b) == [b EXCEPT !.saved_state = Some(b.state)]

\* variant of resume_state that leaves the live board as it is
resume_state_keep(b) == b

resume_state(b) ==
    IF b.saved_state # None THEN [b EXCEPT !.state = b.saved_state[1]] ELSE b

(***************************************************************************)
(* Timer (utils/timer.rs) and GameTimers (views/board_instance.rs)         *)
(***************************************************************************)
\* configuration: seconds per gravity step, seconds of lock delay
GravityInterval == 2
LockDelay == 2

CLEAR_DURATION == 1
\* 0.15 s in the program; the slide timer is never ticked, a whole number stands for it
SLIDE_DURATION == 1
GAME_OVER_DURATION == 3

NewTimer(duration) == [duration |-> duration, elapsed |-> 0, paused |-> FALSE]

NewGameTimers(gravity_interval, lock_delay) ==
    [gravity             |-> NewTimer(gravity_interval),
     lock                |-> NewTimer(lock_delay),
     clear_animation     |-> NewTimer(CLEAR_DURATION),
     slide_animation     |-> NewTimer(SLIDE_DURATION),
     game_over_animation |-> NewTimer(GAME_OVER_DURATION)]

\* variant of reset that also sets the timer running
reset_running(t) == [t EXCEPT !.elapsed = 0, !.paused = FALSE]

\* Timer::reset / pause / resume
reset(t) == [t EXCEPT !.elapsed = 0]

pause(t) == [t EXCEPT !.paused = TRUE]

resume(t) == [t EXCEPT !.paused = FALSE]

\* variant of tick that carries the excess over the duration into the next run
tick_carry(t, dt) ==
    IF t.paused THEN [timer |-> t, fired |-> FALSE]
    ELSE IF t.elapsed + dt >= t.duration
    THEN [timer |-> [t EXCEPT !.elapsed = @ + dt - t.duration], fired |-> TRUE]
    ELSE [timer |-> [t EXCEPT !.elapsed = @ + dt], fired |-> FALSE]

\* Timer::tick : the timer after the tick, and whether it finished
tick(t, dt) ==
    IF t.paused THEN [timer |-> t, fired |-> FALSE]
    ELSE IF t.elapsed + dt >= t.duration
    THEN [timer |-> reset([t EXCEPT !.elapsed = @ + dt]), fired |-> TRUE]
    ELSE [timer |-> [t EXCEPT !.elapsed = @ + dt], fired |-> FALSE]

pause_all(ts) == [n \in DOMAIN ts |-> pause(ts[n])]

resume_all(ts) == [n \in DOMAIN ts |-> resume(ts[n])]

reset_all(ts) == [n \in DOMAIN ts |-> reset(ts[n])]

GameState(tag) == [tag |-> tag, now |-> FALSE, hard_drop |-> FALSE]

Locking(now, hard_drop) == [tag |-> "Locking", now |-> now, hard_drop |-> hard_drop]

NoCall == [op |-> "new", piece |-> None, pos |-> None, result |-> "", rows |-> None,
           pre |-> None, input |-> None, dt |-> 0, locking_for |-> None,
           run |-> 0, arg |-> None, ret |-> None]

\* Board::new and BoardInstance::new
NewInstance(w, h) ==
    /\ width = w
    /\ height = h
    /\ state = NewBoardState(w, h)
    /\ backup_state = NewBoardState(w, h)
    /\ saved_state = None
    /\ game_state = GameState("Ready")
    /\ prev_game_state = None
    /\ timers = NewGameTimers(GravityInterval, LockDelay)
    /\ rows_to_clear = None
    /\ active_piece = None
    /\ call = NoCall
    /\ ncalls = 0

(***************************************************************************)
(* Board-level scenarios: a Board is built from the empty board by commits *)
(* of legally placed pieces and by clearing full rows; a query (try_place, *)
(* calculate_drop) is then made on it and its outcome recorded in call.    *)
(***************************************************************************)
InstanceVars == <<game_state, prev_game_state, timers, rows_to_clear, active_piece>>

\* Positions tried on a w x h board.  Cell offsets are 0..3, so these are all
\* the positions with a legal footprint for some rotation, and for every
\* rotation some positions that stick out on each side.
PositionsOn(w, h) == {BoardPosition(x, y) : x \in (0 - 2)..(w - 1), y \in (0 - 1)..(h - 1)}

PiecesOn(w, h) == {[typ |-> t, rot_idx |-> r, position |-> p] :
                      t \in PieceTypes, r \in 0..3, p \in PositionsOn(w, h)}

InGrid(w, h, piece) ==
    \A p \in board_positions(piece) : 0 <= p.x /\ p.x < w /\ 0 <= p.y /\ p.y < h

\* the pieces of PiecesOn whose four cells are inside the grid
PlacementsOn(w, h) == {piece \in PiecesOn(w, h) : InGrid(w, h, piece)}

BoardPieces == PiecesOn(BoardWidth, BoardHeight)

\* each placement of the scenario board with the grid indices of its cells
BoardPlacements ==
    {<<piece, {p.y * BoardWidth + p.x : p \in board_positions(piece)}>> :
        piece \in PlacementsOn(BoardWidth, BoardHeight)}

Free(s, cell_idxs) == \A i \in cell_idxs : ~s.grid[i]

\* a legal placement: all four cells inside the grid and unfilled
Legal(s, piece, pos) ==
    \A k \in 1..Len(cells(piece)) :
        LET x == pos.x + cells(piece)[k][1]
            y == pos.y + cells(piece)[k][2]
        IN  /\ 0 <= x /\ x < width /\ 0 <= y /\ y < height
            /\ ~s.grid[y * width + x]

Queried == call.op \in {"try_place", "calculate_drop"}

SetBoard(b) ==
    /\ state' = b.state
    /\ backup_state' = b.backup_state
    /\ saved_state' = b.saved_state

\* board.commit_piece(piece) for a pre-validated piece
BCommit(piece, max_commits) ==
    /\ ncalls < max_commits
    /\ Legal(state, piece, piece.position)
    /\ LET r == commit_piece(state, piece)
       IN  /\ state' = r.state
           /\ call' = [NoCall EXCEPT !.op = "commit_piece", !.piece = Some(piece),
                                     !.rows = r.rows]
    /\ ncalls' = ncalls + 1
    /\ UNCHANGED <<width, height, backup_state, saved_state, InstanceVars>>

\* board.try_place(piece, pos)
BTryPlace(piece, pos) ==
    /\ ncalls <= MaxQueryCommits
    /\ LET r == try_place(Board, piece, pos)
       IN  /\ SetBoard(r.board)
           /\ call' = [NoCall EXCEPT !.op = "try_place", !.piece = Some(piece),
                                     !.pos = Some(pos), !.result = r.result]
    /\ UNCHANGED <<width, height, ncalls, InstanceVars>>

\* board.calculate_drop(piece) for a piece at a legal position
BCalculateDrop(piece) ==
    /\ Legal(state, piece, piece.position)
    /\ LET r == calculate_drop(Board, piece)
       IN  /\ SetBoard(r.board)
           /\ call' = [NoCall EXCEPT !.op = "calculate_drop", !.piece = Some(piece),
                                     !.pos = Some(r.pos), !.result = r.result]
    /\ UNCHANGED <<width, height, ncalls, InstanceVars>>

\* the piece is moved to the landing calculate_drop returned and committed
BCommitLanded ==
    /\ call.op = "calculate_drop"
    /\ call.result \in {"PlaceOk", "RowFilled"}
    /\ LET piece == [call.piece[1] EXCEPT !.position = call.pos[1]]
           r     == commit_piece(state, piece)
       IN  /\ state' = r.state
           /\ call' = [NoCall EXCEPT !.op = "commit_landed", !.piece = Some(piece),
                                     !.rows = r.rows]
    /\ ncalls' = ncalls + 1
    /\ UNCHANGED <<width, height, backup_state, saved_state, InstanceVars>>

FullRows(s) == {y \in DOMAIN s.row_score : s.row_score[y] = width}

\* the orders in which the rows of S can be listed
Orders(S) == {q \in [1..Cardinality(S) -> S] : \A i, j \in DOMAIN q : q[i] = q[j] => i = j}

\* board.clear_rows(rows) for full rows, listed in any order
BClearRows(rows) ==
    /\ state' = clear_rows(state, rows)
    /\ call' = [NoCall EXCEPT !.op = "clear_rows", !.rows = Some(rows), !.pre = Some(state)]
    /\ UNCHANGED <<width, height, backup_state, saved_state, ncalls, InstanceVars>>

BoardInit == NewInstance(BoardWidth, BoardHeight)

\* a scenario ends with its query
BoardNext ==
    \/ ~Queried /\ \E pc \in BoardPlacements :
          Free(state, pc[2]) /\ BCommit(pc[1], MaxCommits)
    \/ ~Queried /\ \E piece \in BoardPieces : BTryPlace(piece, piece.position)
    \/ ~Queried /\ \E pc \in BoardPlacements :
          Free(state, pc[2]) /\ BCalculateDrop(pc[1])
    \/ ~Queried /\ \E R \in SUBSET FullRows(state) : \E rows \in Orders(R) :
          R # {} /\ BClearRows(rows)

\* scenarios of commits, clears and one query
SpecBoard == BoardInit /\ [][BoardNext]_vars

ClearNext ==
    \/ \E pc \in BoardPlacements : Free(state, pc[2]) /\ BCommit(pc[1], MaxClearCommits)
    \/ \E R \in SUBSET FullRows(state) : \E rows \in Orders(R) :
          R # {} /\ BClearRows(rows)

\* scenarios of commits and clears only, built deeper
SpecClear == BoardInit /\ [][ClearNext]_vars

\* empty boards of every size up to the bounds, and the 10 x 20 board
EmptyDims ==
    {<<w, h>> : w \in 1..MaxEmptyWidth, h \in 1..MaxEmptyHeight} \cup {<<10, 20>>}

EmptyInit == \E d \in EmptyDims : NewInstance(d[1], d[2])

EmptyNext ==
    \/ /\ call.op = "new"
       /\ \E piece \in PlacementsOn(width, height) : BCalculateDrop(piece)
    \/ BCommitLanded

\* one drop onto an empty board, then the commit at the landing
SpecEmpty == EmptyInit /\ [][EmptyNext]_vars

(***************************************************************************)
(* Save / resume scenarios: commits and clears with save_state and         *)
(* resume_state calls anywhere between them.  call.pre is kept through the *)
(* scenario as a copy of the live state taken at the last save_state call. *)
(***************************************************************************)
\* commits in a save / resume scenario
MaxSaveCommits == 2

SaveCommit(piece) ==
    /\ ncalls < MaxSaveCommits
    /\ state' = commit_piece(state, piece).state
    /\ call' = [call EXCEPT !.op = "commit_piece", !.result = ""]
    /\ ncalls' = ncalls + 1
    /\ UNCHANGED <<width, height, backup_state, saved_state, InstanceVars>>

SaveClearRows(rows) ==
    /\ state' = clear_rows(state, rows)
    /\ call' = [call EXCEPT !.op = "clear_rows", !.result = ""]
    /\ UNCHANGED <<width, height, backup_state, saved_state, ncalls, InstanceVars>>

\* board.save_state()
SaveState ==
    /\ SetBoard(save_state(Board))
    /\ call' = [call EXCEPT !.op = "save_state", !.result = "", !.pre = Some(state)]
    /\ UNCHANGED <<width, height, ncalls, InstanceVars>>

\* board.resume_state(); result tells whether the live state was replaced
ResumeState ==
    /\ SetBoard(resume_state(Board))
    /\ call' = [call EXCEPT !.op = "resume_state",
                            !.result = IF resume_state(Board).state # state
                                       THEN "restored" ELSE "unchanged"]
    /\ UNCHANGED <<width, height, ncalls, InstanceVars>>

SaveNext ==
    \/ \E pc \in BoardPlacements : Free(state, pc[2]) /\ SaveCommit(pc[1])
    \/ \E R \in SUBSET FullRows(state) : \E rows \in Orders(R) :
          R # {} /\ SaveClearRows(rows)
    \/ SaveState
    \/ ResumeState

SpecSave == BoardInit /\ [][SaveNext]_vars

(***************************************************************************)
(* Wall kicks (models/wall_kick.rs) and Board::try_rotation                *)
(***************************************************************************)
JLSZT_WALL_KICKS ==
    << << <<0, 0>>, <<-1, 0>>, <<-1, 1>>,  <<0, -2>>, <<-1, -2>> >>,
       << <<0, 0>>, <<1, 0>>,  <<1, -1>>,  <<0, 2>>,  <<1, 2>> >>,
       << <<0, 0>>, <<1, 0>>,  <<1, -1>>,  <<0, 2>>,  <<1, 2>> >>,
       << <<0, 0>>, <<-1, 0>>, <<-1, 1>>,  <<0, -2>>, <<-1, -2>> >>,
       << <<0, 0>>, <<1, 0>>,  <<1, 1>>,   <<0, -2>>, <<1, -2>> >>,
       << <<0, 0>>, <<-1, 0>>, <<-1, -1>>, <<0, 2>>,  <<-1, 2>> >>,
       << <<0, 0>>, <<-1, 0>>, <<-1, -1>>, <<0, 2>>,  <<-1, 2>> >>,
       << <<0, 0>>, <<1, 0>>,  <<1, 1>>,   <<0, -2>>, <<1, -2>> >> >>

I_WALL_KICKS ==
    << << <<0, 0>>, <<-2, 0>>, <<1, 0>>,  <<-2, -1>>, <<1, 2>> >>,
       << <<0, 0>>, <<2, 0>>,  <<-1, 0>>, <<2, 1>>,   <<-1, -2>> >>,
       << <<0, 0>>, <<-1, 0>>, <<2, 0>>,  <<-1, 2>>,  <<2, -1>> >>,
       << <<0, 0>>, <<1, 0>>,  <<-2, 0>>, <<1, -2>>,  <<-2, 1>> >>,
       << <<0, 0>>, <<2, 0>>,  <<-1, 0>>, <<2, 1>>,   <<-1, -2>> >>,
       << <<0, 0>>, <<-2, 0>>, <<1, 0>>,  <<-2, -1>>, <<1, 2>> >>,
       << <<0, 0>>, <<1, 0>>,  <<-2, 0>>, <<1, -2>>,  <<-2, 1>> >>,
       << <<0, 0>>, <<-1, 0>>, <<2, 0>>,  <<-1, 2>>,  <<2, -1>> >> >>

O_WALL_KICKS == << << <<0, 0>> >> >>

\* variant of get_wall_kick_index that always takes the fallback
get_wall_kick_index_fallback(from_rot, to_rot) == 0

get_wall_kick_index(from_rot, to_rot) ==
    LET pair == <<from_rot % 4, to_rot % 4>>
    IN  CASE pair = <<0, 1>> -> 0
          [] pair = <<1, 0>> -> 1
          [] pair = <<1, 2>> -> 2
          [] pair = <<2, 1>> -> 3
          [] pair = <<2, 3>> -> 4
          [] pair = <<3, 2>> -> 5
          [] pair = <<3, 0>> -> 6
          [] pair = <<0, 3>> -> 7
          [] OTHER -> 0

\* variant of rotate that turns clockwise whatever the direction
rotate_clockwise(piece, direction) ==
    [piece EXCEPT !.rot_idx = (@ + 1) % rotation_count(piece.typ)]

\* PieceInstance::rotate : the rotation index after a turn
rotate(piece, direction) ==
    LET count == rotation_count(piece.typ)
    IN  [piece EXCEPT !.rot_idx = IF direction = "Cw" THEN (@ + 1) % count
                                  ELSE (@ + count - 1) % count]

\* the kick offsets for a piece category and a (from, to) pair of rotations
wall_kicks(typ, from_rot, to_rot) ==
    CASE typ = "O" -> O_WALL_KICKS[1]
      [] typ = "I" -> I_WALL_KICKS[get_wall_kick_index(from_rot, to_rot) + 1]
      [] OTHER     -> JLSZT_WALL_KICKS[get_wall_kick_index(from_rot, to_rot) + 1]

\* the first kick, in table order, at which the rotated footprint is legal
RECURSIVE try_kicks(_, _, _, _, _)
try_kicks(b, rotated, pos, kicks, k) ==
    IF k > Len(kicks) THEN [board |-> b, pos |-> None]
    ELSE LET new_pos == BoardPosition(pos.x + kicks[k][1], pos.y + kicks[k][2])
             r       == try_place(b, rotated, new_pos)
         IN  IF r.result \in {"PlaceOk", "RowFilled"}
             THEN [board |-> r.board, pos |-> Some(new_pos)]
             ELSE try_kicks(r.board, rotated, pos, kicks, k + 1)

\* Board::try_rotation : the corrected position of the rotated piece, or None
try_rotation(b, piece, direction) ==
    LET rotated == rotate(piece, direction)
    IN  try_kicks(b, rotated, piece.position,
                  wall_kicks(piece.typ, piece.rot_idx, rotated.rot_idx), 1)

(***************************************************************************)
(* BoardInstance (views/board_instance.rs)                                 *)
(***************************************************************************)
Instance ==
    [board           |-> Board,
     game_state      |-> game_state,
     prev_game_state |-> prev_game_state,
     timers          |-> timers,
     rows_to_clear   |-> rows_to_clear,
     active_piece    |-> active_piece]

\* calculate_drop did not come back: the update call never returns
NoReturn(bi) == bi.game_state.tag = "NoReturn"

is_piece_at_bottom(piece) ==
    \E k \in 1..Len(cells(piece)) : piece.position.y + cells(piece)[k][2] = 0

\* spawn_new_piece, i being the index the random generator drew
spawn_pos(piece_type) ==
    BoardPosition(midpoint_x - (max_x(piece_type, 0) \div 2),
                  height - max_y(piece_type, 0) - 1)

\* the new piece becomes the active piece whether or not it can be placed
spawned(bi, new_piece, r) ==
    [bi        |-> [bi EXCEPT !.board = r.board, !.active_piece = Some(new_piece)],
     can_place |-> r.result \in {"PlaceOk", "RowFilled"}]

spawn_new_piece(bi, i) ==
    LET new_piece == NewPiece(from_idx(i), spawn_pos(from_idx(i)))
    IN  spawned(bi, new_piece, try_place(bi.board, new_piece, new_piece.position))

\* BoardInstance::commit_piece : takes the active piece and commits it
committed(bi, r) ==
    [bi   |-> [bi EXCEPT !.active_piece = None, !.board.state = r.state],
     rows |-> r.rows]

bi_commit_piece(bi) ==
    IF bi.active_piece = None THEN [bi |-> bi, rows |-> None]
    ELSE committed(bi, commit_piece(bi.board.state, bi.active_piece[1]))

\* the match of hard_drop on what calculate_drop returned
dropped(bi, r) ==
    LET b1    == [bi EXCEPT !.board = r.board]
        moved == Some([bi.active_piece[1] EXCEPT !.position = r.pos])
    IN  CASE r.result = "PlaceOk" ->
               [b1 EXCEPT !.active_piece = moved,
                          !.timers.lock = reset(@),
                          !.game_state = Locking(FALSE, TRUE)]
          [] r.result = "RowFilled" ->
               [b1 EXCEPT !.active_piece = moved,
                          !.game_state = Locking(TRUE, TRUE)]
          [] r.result = "NoReturn" ->
               [b1 EXCEPT !.game_state = GameState("NoReturn")]
          [] OTHER -> b1

hard_drop(bi) ==
    IF bi.active_piece = None THEN bi
    ELSE dropped(bi, calculate_drop(bi.board, bi.active_piece[1]))

\* variant of moved_to that moves the piece whatever try_place returned
moved_to_unchecked(bi, new_pos, r) ==
    [bi EXCEPT !.board = r.board,
               !.active_piece = Some([bi.active_piece[1] EXCEPT !.position = new_pos])]

\* the match of move_active_piece on what try_place returned
moved_to(bi, new_pos, r) ==
    LET b1    == [bi EXCEPT !.board = r.board]
        moved == Some([bi.active_piece[1] EXCEPT !.position = new_pos])
    IN  CASE r.result = "PlaceOk" -> [b1 EXCEPT !.active_piece = moved]
          [] r.result = "RowFilled" ->
               [b1 EXCEPT !.active_piece = moved,
                          !.game_state = Locking(TRUE, FALSE)]
          [] OTHER -> b1

move_active_piece(bi, new_pos) ==
    IF bi.active_piece = None THEN bi
    ELSE moved_to(bi, new_pos, try_place(bi.board, bi.active_piece[1], new_pos))

\* the rotation and the position are applied when try_rotation found a place
rotated_to(bi, r) ==
    LET b1 == [bi EXCEPT !.board = r.board]
    IN  IF r.pos = None THEN b1
        ELSE [b1 EXCEPT !.active_piece =
                 Some([rotate(bi.active_piece[1], "Cw") EXCEPT !.position = r.pos[1]])]

rotate_active_piece(bi) ==
    IF bi.active_piece = None THEN bi
    ELSE rotated_to(bi, try_rotation(bi.board, bi.active_piece[1], "Cw"))

\* variant of handle_pause that leaves the timers running during the pause
handle_pause_running(bi) ==
    IF bi.game_state.tag = "Paused"
    THEN [bi EXCEPT !.game_state = IF bi.prev_game_state # None
                                   THEN bi.prev_game_state[1]
                                   ELSE GameState("Ready"),
                    !.prev_game_state = None,
                    !.timers = resume_all(@)]
    ELSE [bi EXCEPT !.prev_game_state = Some(bi.game_state),
                    !.game_state = GameState("Paused")]

\* variant of handle_pause that restarts the timers when the pause ends
handle_pause_restart(bi) ==
    IF bi.game_state.tag = "Paused"
    THEN [bi EXCEPT !.game_state = IF bi.prev_game_state # None
                                   THEN bi.prev_game_state[1]
                                   ELSE GameState("Ready"),
                    !.prev_game_state = None,
                    !.timers = reset_all(resume_all(@))]
    ELSE [bi EXCEPT !.prev_game_state = Some(bi.game_state),
                    !.game_state = GameState("Paused"),
                    !.timers = pause_all(@)]

handle_pause(bi) ==
    IF bi.game_state.tag = "Paused"
    THEN [bi EXCEPT !.game_state = IF bi.prev_game_state # None
                                   THEN bi.prev_game_state[1]
                                   ELSE GameState("Ready"),
                    !.prev_game_state = None,
                    !.timers = resume_all(@)]
    ELSE [bi EXCEPT !.prev_game_state = Some(bi.game_state),
                    !.game_state = GameState("Paused"),
                    !.timers = pause_all(@)]

handle_input(bi, input) ==
    CASE input \in {"L", "R"} ->
            IF bi.active_piece = None THEN bi
            ELSE LET p == bi.active_piece[1].position
                 IN  move_active_piece(bi,
                        BoardPosition(IF input = "L" THEN p.x - 1 ELSE p.x + 1, p.y))
      [] input = "Rotate"   -> rotate_active_piece(bi)
      [] input = "HardDrop" -> hard_drop(bi)
      [] input = "Pause"    -> handle_pause(bi)
      [] OTHER -> bi

\* variant of handle_pause_input that lets every input through
handle_pause_input_all(bi, input) == handle_input(bi, input)

handle_pause_input(bi, input) ==
    CASE input = "Pause" -> handle_pause(bi)
      [] input = "SaveState" ->
            [bi EXCEPT !.board = save_state(@), !.active_piece = None,
                       !.game_state = GameState("Ready")]
      [] input = "ResumeState" ->
            [bi EXCEPT !.board = resume_state(@), !.active_piece = None,
                       !.game_state = GameState("Ready")]
      [] OTHER -> bi

\* "if let Some(input) = input { self.handle_input(input) }"
with_input(bi, input) == IF input = None THEN bi ELSE handle_input(bi, input[1])

\* variant of the Ready arm that leaves the timers as they are
ready_spawned_noreset(r) ==
    [r.bi EXCEPT !.game_state = IF r.can_place THEN GameState("Falling")
                                ELSE GameState("GameOver")]

\* the Ready arm of update, on what spawn_new_piece returned
ready_spawned(r) ==
    [r.bi EXCEPT !.timers = reset_all(@),
                 !.game_state = IF r.can_place THEN GameState("Falling")
                                ELSE GameState("GameOver")]

update_Ready(bi, i) == ready_spawned(spawn_new_piece(bi, i))

below(piece) == BoardPosition(piece.position.x, piece.position.y - 1)

\* variant of gravity_moved that treats a row-completing descent like any other
gravity_moved_plain(bi, next_pos, r) ==
    LET b1    == [bi EXCEPT !.board = r.board]
        moved == Some([bi.active_piece[1] EXCEPT !.position = next_pos])
    IN  IF r.result \in {"PlaceOk", "RowFilled"}
        THEN [b1 EXCEPT !.active_piece = moved,
                        !.timers.gravity = reset(@),
                        !.game_state = GameState("Falling")]
        ELSE [b1 EXCEPT !.game_state = Locking(FALSE, FALSE)]

\* the match of the Falling arm on what try_place(piece, next_pos) returned
gravity_moved(bi, next_pos, r) ==
    LET b1    == [bi EXCEPT !.board = r.board]
        moved == Some([bi.active_piece[1] EXCEPT !.position = next_pos])
    IN  CASE r.result = "PlaceOk" ->
               [b1 EXCEPT !.active_piece = moved,
                          !.timers.gravity = reset(@),
                          !.game_state = GameState("Falling")]
          [] r.result = "RowFilled" ->
               [b1 EXCEPT !.active_piece = moved,
                          !.game_state = Locking(TRUE, FALSE)]
          [] OTHER ->
               [b1 EXCEPT !.game_state = Locking(FALSE, FALSE)]

\* gravity applied to the active piece
apply_gravity(bi) ==
    IF bi.active_piece = None THEN bi
    ELSE IF is_piece_at_bottom(bi.active_piece[1])
    THEN [bi EXCEPT !.game_state = Locking(FALSE, FALSE)]
    ELSE gravity_moved(bi, below(bi.active_piece[1]),
                       try_place(bi.board, bi.active_piece[1], below(bi.active_piece[1])))

\* "if self.timers.gravity.tick(dt) { ... }"
gravity_tick(bi, dt) ==
    LET g  == tick(bi.timers.gravity, dt)
        b1 == [bi EXCEPT !.timers.gravity = g.timer]
    IN  IF NoReturn(bi) THEN bi
        ELSE IF g.fired THEN apply_gravity(b1) ELSE b1

\* the Falling arm of update
update_Falling(bi, dt, input) == gravity_tick(with_input(bi, input), dt)

\* variant of lock_committed with the test on the completed rows inverted
lock_committed_inverted(r) ==
    [r.bi EXCEPT !.rows_to_clear = r.rows,
                 !.game_state = IF r.rows = None THEN GameState("Clearing")
                                ELSE GameState("Ready")]

\* rows_to_clear = commit_piece(), then Clearing or Ready
lock_committed(r) ==
    [r.bi EXCEPT !.rows_to_clear = r.rows,
                 !.game_state = IF r.rows # None THEN GameState("Clearing")
                                ELSE GameState("Ready")]

lock_commit(bi) == lock_committed(bi_commit_piece(bi))

lock_fell(bi, next_pos, r) ==
    LET b1 == [bi EXCEPT !.board = r.board]
    IN  IF r.result = "PlaceOk"
        THEN [b1 EXCEPT !.active_piece =
                           Some([bi.active_piece[1] EXCEPT !.position = next_pos]),
                        !.timers.lock = reset(@),
                        !.timers.gravity = reset(@),
                        !.game_state = GameState("Falling")]
        ELSE b1

\* the piece falls again if an input during Locking freed the cells below it
lock_fall(bi) ==
    IF bi.active_piece = None THEN bi
    ELSE IF is_piece_at_bottom(bi.active_piece[1]) THEN bi
    ELSE lock_fell(bi, below(bi.active_piece[1]),
                   try_place(bi.board, bi.active_piece[1], below(bi.active_piece[1])))

\* "if self.timers.lock.tick(dt) { ... }"
lock_tick(bi, dt) ==
    LET l  == tick(bi.timers.lock, dt)
        b1 == [bi EXCEPT !.timers.lock = l.timer]
    IN  IF l.fired THEN lock_commit(b1) ELSE b1

\* the Locking arm after the input was handled
lock_adjusted(bi, dt) == IF NoReturn(bi) THEN bi ELSE lock_tick(lock_fall(bi), dt)

\* the Locking arm of update
update_Locking(bi, dt, input) ==
    IF bi.game_state.now THEN lock_commit(bi)
    ELSE lock_adjusted(with_input(bi, input), dt)

\* "if self.timers.clear_animation.tick(dt) { ... }"
clear_tick(bi, dt) ==
    LET c  == tick(bi.timers.clear_animation, dt)
        b1 == [bi EXCEPT !.timers.clear_animation = c.timer]
    IN  IF NoReturn(bi) THEN bi
        ELSE IF ~c.fired THEN b1
        ELSE [b1 EXCEPT !.board.state = IF bi.rows_to_clear # None
                                        THEN clear_rows(@, bi.rows_to_clear[1])
                                        ELSE @,
                        !.rows_to_clear = None,
                        !.timers.clear_animation = reset(@),
                        !.game_state = GameState("Ready")]

\* the Clearing arm of update
update_Clearing(bi, dt, input) == clear_tick(with_input(bi, input), dt)

\* "if self.timers.game_over_animation.tick(dt) { ... }"
game_over_tick(bi, dt) ==
    LET t == tick(bi.timers.game_over_animation, dt)
    IN  IF NoReturn(bi) THEN bi
        ELSE [bi EXCEPT !.timers.game_over_animation = t.timer,
                        !.game_state = IF t.fired THEN GameState("Frozen") ELSE @]

\* the GameOver arm of update
update_GameOver(bi, dt, input) ==
    game_over_tick(with_input(bi_commit_piece(bi).bi, input), dt)

\* the Frozen arm of update
update_Frozen(bi, input) == with_input(bi, input)

\* the Paused arm of update
update_Paused(bi, input) ==
    IF input = None THEN bi ELSE handle_pause_input(bi, input[1])

(***************************************************************************)
(* The game: one BoardInstance driven by update(dt, input, rng) calls.     *)
(* ncalls counts the pieces spawned.                                       *)
(***************************************************************************)
\* board of the game, pieces spawned in a game, longest frame time in seconds
GameWidth == 5
GameHeight == 4
MaxPieces == 2
MaxDt == 2

Dts == 0..MaxDt

PlayerInput == {"L", "R", "HardDrop", "Rotate", "Pause", "SaveState", "ResumeState"}

Inputs == {None} \cup {Some(i) : i \in PlayerInput}

SetInstance(bi) ==
    /\ SetBoard(bi.board)
    /\ game_state' = bi.game_state
    /\ prev_game_state' = bi.prev_game_state
    /\ timers' = bi.timers
    /\ rows_to_clear' = bi.rows_to_clear
    /\ active_piece' = bi.active_piece

UpdateReady(i) ==
    /\ game_state.tag = "Ready"
    /\ ncalls < MaxPieces
    /\ SetInstance(update_Ready(Instance, i))
    /\ ncalls' = ncalls + 1
    /\ UNCHANGED <<width, height, call>>

UpdateFalling(dt, input) ==
    /\ game_state.tag = "Falling"
    /\ SetInstance(update_Falling(Instance, dt, input))
    /\ UNCHANGED <<width, height, call, ncalls>>

UpdateLocking(dt, input) ==
    /\ game_state.tag = "Locking"
    /\ SetInstance(update_Locking(Instance, dt, input))
    /\ UNCHANGED <<width, height, call, ncalls>>

UpdateClearing(dt, input) ==
    /\ game_state.tag = "Clearing"
    /\ SetInstance(update_Clearing(Instance, dt, input))
    /\ UNCHANGED <<width, height, call, ncalls>>

UpdateGameOver(dt, input) ==
    /\ game_state.tag = "GameOver"
    /\ SetInstance(update_GameOver(Instance, dt, input))
    /\ UNCHANGED <<width, height, call, ncalls>>

UpdateFrozen(input) ==
    /\ game_state.tag = "Frozen"
    /\ SetInstance(update_Frozen(Instance, input))
    /\ UNCHANGED <<width, height, call, ncalls>>

UpdatePaused(input) ==
    /\ game_state.tag = "Paused"
    /\ SetInstance(update_Paused(Instance, input))
    /\ UNCHANGED <<width, height, call, ncalls>>

Init == NewInstance(GameWidth, GameHeight)

Next ==
    \/ \E i \in 0..(Len(ALL) - 1) : UpdateReady(i)
    \/ \E dt \in Dts, input \in Inputs : UpdateFalling(dt, input)
    \/ \E dt \in Dts, input \in Inputs : UpdateLocking(dt, input)
    \/ \E dt \in Dts, input \in Inputs : UpdateClearing(dt, input)
    \/ \E dt \in Dts, input \in Inputs : UpdateGameOver(dt, input)
    \/ \E input \in Inputs : UpdateFrozen(input)
    \/ \E input \in Inputs : UpdatePaused(input)

Spec == Init /\ [][Next]_vars

(***************************************************************************)
(* The same game with the last update call written down in call: the arm   *)
(* that ran (op), its input and its dt, how long the piece has been        *)
(* locking undisturbed (locking_for), and, while the game is paused, the   *)
(* instance that was interrupted (pre).                                    *)
(* The pieces drawn are limited to TraceDraws to keep the histories apart. *)
(***************************************************************************)
\* indices the random generator draws in the traced game: I and O
TraceDraws == {0, 6}

\* Some(t) while the piece sits in Locking{now: false} with a running lock
\* timer, having come there from Falling and had t seconds of updates without
\* input since; None otherwise
LockingFor(dt, input) ==
    IF game_state'.tag = "Locking" /\ ~game_state'.now /\ ~timers'.lock.paused
    THEN IF game_state.tag = "Falling" THEN Some(0)
         ELSE IF game_state.tag = "Locking" /\ input = None /\ call.locking_for # None
         THEN Some(call.locking_for[1] + dt)
         ELSE None
    ELSE None

\* while the game is Paused: the instance as it was when the update that
\* paused it began; None otherwise
PausedAt ==
    IF game_state'.tag = "Paused"
    THEN IF game_state.tag = "Paused" THEN call.pre ELSE Some(Instance)
    ELSE None

Traced(arm, dt, input) ==
    call' = [NoCall EXCEPT !.op = arm, !.input = input, !.dt = dt,
                           !.locking_for = LockingFor(dt, input),
                           !.pre = PausedAt]

TraceReady(i) ==
    /\ game_state.tag = "Ready"
    /\ ncalls < MaxPieces
    /\ SetInstance(update_Ready(Instance, i))
    /\ ncalls' = ncalls + 1
    /\ Traced("Ready", 0, None)
    /\ UNCHANGED <<width, height>>

TraceFalling(dt, input) ==
    /\ game_state.tag = "Falling"
    /\ SetInstance(update_Falling(Instance, dt, input))
    /\ Traced("Falling", dt, input)
    /\ UNCHANGED <<width, height, ncalls>>

TraceLocking(dt, input) ==
    /\ game_state.tag = "Locking"
    /\ SetInstance(update_Locking(Instance, dt, input))
    /\ Traced("Locking", dt, input)
    /\ UNCHANGED <<width, height, ncalls>>

TraceClearing(dt, input) ==
    /\ game_state.tag = "Clearing"
    /\ SetInstance(update_Clearing(Instance, dt, input))
    /\ Traced("Clearing", dt, input)
    /\ UNCHANGED <<width, height, ncalls>>

TraceGameOver(dt, input) ==
    /\ game_state.tag = "GameOver"
    /\ SetInstance(update_GameOver(Instance, dt, input))
    /\ Traced("GameOver", dt, input)
    /\ UNCHANGED <<width, height, ncalls>>

TraceFrozen(input) ==
    /\ game_state.tag = "Frozen"
    /\ SetInstance(update_Frozen(Instance, input))
    /\ Traced("Frozen", 0, input)
    /\ UNCHANGED <<width, height, ncalls>>

TracePaused(input) ==
    /\ game_state.tag = "Paused"
    /\ SetInstance(update_Paused(Instance, input))
    /\ Traced("Paused", 0, input)
    /\ UNCHANGED <<width, height, ncalls>>

TraceNext ==
    \/ \E i \in TraceDraws : TraceReady(i)
    \/ \E dt \in Dts, input \in Inputs : TraceFalling(dt, input)
    \/ \E dt \in Dts, input \in Inputs : TraceLocking(dt, input)
    \/ \E dt \in Dts, input \in Inputs : TraceClearing(dt, input)
    \/ \E dt \in Dts, input \in Inputs : TraceGameOver(dt, input)
    \/ \E input \in Inputs : TraceFrozen(input)
    \/ \E input \in Inputs : TracePaused(input)

SpecTrace == Init /\ [][TraceNext]_vars

(***************************************************************************)
(* The traced game on a board two I pieces wide, where two I pieces laid   *)
(* side by side complete a row that has nothing above it.                  *)
(***************************************************************************)
WideWidth == 8

WideInit == NewInstance(WideWidth, GameHeight)

WideNext ==
    \/ TraceReady(0)
    \/ \E dt \in Dts, input \in Inputs : TraceFalling(dt, input)
    \/ \E dt \in Dts, input \in Inputs : TraceLocking(dt, input)
    \/ \E dt \in Dts, input \in Inputs : TraceClearing(dt, input)
    \/ \E dt \in Dts, input \in Inputs : TraceGameOver(dt, input)
    \/ \E input \in Inputs : TraceFrozen(input)
    \/ \E input \in Inputs : TracePaused(input)

SpecWide == WideInit /\ [][WideNext]_vars

(***************************************************************************)
(* The traced game on a board two rows high, where an I piece lying in row *)
(* 0 blocks the spawn of an O piece but not of another I, with three       *)
(* spawns.                                                                 *)
(***************************************************************************)
LowWidth == 6
LowHeight == 2
LowPieces == 3

LowInit == NewInstance(LowWidth, LowHeight)

LowReady(i) ==
    /\ game_state.tag = "Ready"
    /\ ncalls < LowPieces
    /\ SetInstance(update_Ready(Instance, i))
    /\ ncalls' = ncalls + 1
    /\ Traced("Ready", 0, None)
    /\ UNCHANGED <<width, height>>

LowNext ==
    \/ \E i \in TraceDraws : LowReady(i)
    \/ \E dt \in Dts, input \in Inputs : TraceFalling(dt, input)
    \/ \E dt \in Dts, input \in Inputs : TraceLocking(dt, input)
    \/ \E dt \in Dts, input \in Inputs : TraceClearing(dt, input)
    \/ \E dt \in Dts, input \in Inputs : TraceGameOver(dt, input)
    \/ \E input \in Inputs : TraceFrozen(input)
    \/ \E input \in Inputs : TracePaused(input)

SpecLow == LowInit /\ [][LowNext]_vars

(***************************************************************************)
(* Hands-off scenarios: a game on the low board played with any inputs,    *)
(* until the player lets go of the controls (call.op = "quiet"); from then *)
(* on every update has a positive dt and no input, and updates keep        *)
(* arriving.                                                               *)
(***************************************************************************)
Quiet == call.op = "quiet"

\* the player gives no further input
LetGo ==
    /\ ~Quiet
    /\ call' = [NoCall EXCEPT !.op = "quiet"]
    /\ UNCHANGED <<width, height, state, backup_state, saved_state, ncalls, InstanceVars>>

\* one more update has arrived: call.run flips between 0 and 1
Ticked == Quiet /\ call' = [call EXCEPT !.run = 1 - @]

\* what an update without input leaves of the instance
HandsOff(bi) ==
    /\ SetInstance(bi)
    /\ Ticked
    /\ UNCHANGED <<width, height, ncalls>>

\* update(dt, None) in Ready: the spawn
QuietReady(i) ==
    /\ game_state.tag = "Ready"
    /\ ncalls < MaxPieces
    /\ SetInstance(update_Ready(Instance, i))
    /\ ncalls' = ncalls + 1
    /\ Ticked
    /\ UNCHANGED <<width, height>>

\* update(dt, None) with dt > 0 in the other states
QuietFalling(dt) == game_state.tag = "Falling" /\ HandsOff(update_Falling(Instance, dt, None))

QuietLocking(dt) == game_state.tag = "Locking" /\ HandsOff(update_Locking(Instance, dt, None))

QuietClearing(dt) == game_state.tag = "Clearing" /\ HandsOff(update_Clearing(Instance, dt, None))

QuietGameOver(dt) == game_state.tag = "GameOver" /\ HandsOff(update_GameOver(Instance, dt, None))

QuietFrozen == game_state.tag = "Frozen" /\ HandsOff(update_Frozen(Instance, None))

QuietPaused == game_state.tag = "Paused" /\ HandsOff(update_Paused(Instance, None))

QuietNext ==
    \/ ~Quiet /\ \E i \in TraceDraws : UpdateReady(i)
    \/ ~Quiet /\ \E dt \in Dts, input \in Inputs : UpdateFalling(dt, input)
    \/ ~Quiet /\ \E dt \in Dts, input \in Inputs : UpdateLocking(dt, input)
    \/ ~Quiet /\ \E dt \in Dts, input \in Inputs : UpdateClearing(dt, input)
    \/ ~Quiet /\ \E dt \in Dts, input \in Inputs : UpdateGameOver(dt, input)
    \/ ~Quiet /\ \E input \in Inputs : UpdateFrozen(input)
    \/ ~Quiet /\ \E input \in Inputs : UpdatePaused(input)
    \/ LetGo
    \/ \E i \in TraceDraws : QuietReady(i)
    \/ \E dt \in 1..MaxDt : QuietFalling(dt)
    \/ \E dt \in 1..MaxDt : QuietLocking(dt)
    \/ \E dt \in 1..MaxDt : QuietClearing(dt)
    \/ \E dt \in 1..MaxDt : QuietGameOver(dt)
    \/ QuietFrozen
    \/ QuietPaused

\* updates keep arriving: in the hands-off phase every update is a Ticked step
\* and every Ticked step is an update
SpecQuiet == LowInit /\ [][QuietNext]_vars /\ WF_call(Ticked)

(***************************************************************************)
(* Query scenarios: a board built by commits, then one of the read-only    *)
(* queries with coordinates inside and outside the grid.  call records the *)
(* argument (arg), the value returned (ret) and the board before (pre).    *)
(***************************************************************************)
\* how far outside the grid the queried coordinates go
QueryMargin == 2

QueryXs == (0 - QueryMargin)..(BoardWidth - 1 + QueryMargin)
QueryYs == (0 - QueryMargin)..(BoardHeight - 1 + QueryMargin)

Asked(op, arg, ret) ==
    /\ call' = [NoCall EXCEPT !.op = op, !.arg = Some(arg), !.ret = Some(ret),
                              !.pre = Some(Board)]
    /\ UNCHANGED <<width, height, state, backup_state, saved_state, ncalls, InstanceVars>>

\* board.row_score(row)
BRowScore(row) == Asked("row_score", row, row_score(state, row))

\* board.col_score(col)
BColScore(col) == Asked("col_score", col, col_score(state, col))

\* board.is_cell_filled(pos)
BIsCellFilled(pos) == Asked("is_cell_filled", pos, is_cell_filled(state, pos))

QueryNext ==
    \/ call.arg = None /\ \E pc \in BoardPlacements :
          Free(state, pc[2]) /\ BCommit(pc[1], MaxQueryCommits)
    \/ call.arg = None /\ \E row \in QueryYs : BRowScore(row)
    \/ call.arg = None /\ \E col \in QueryXs : BColScore(col)
    \/ call.arg = None /\ \E x \in QueryXs, y \in QueryYs :
          BIsCellFilled(BoardPosition(x, y))

SpecQuery == BoardInit /\ [][QueryNext]_vars

(***************************************************************************)
(* Drop scenarios: a board built by commits, then calculate_drop for a     *)
(* piece of any type and rotation at any position, legal or not.           *)
(***************************************************************************)
\* board.calculate_drop(piece), wherever the piece is
BDropAnywhere(piece) ==
    /\ LET r == calculate_drop(Board, piece)
       IN  /\ SetBoard(r.board)
           /\ call' = [NoCall EXCEPT !.op = "calculate_drop", !.piece = Some(piece),
                                     !.pos = Some(r.pos), !.result = r.result]
    /\ UNCHANGED <<width, height, ncalls, InstanceVars>>

DropNext ==
    \/ ~Queried /\ \E pc \in BoardPlacements :
          Free(state, pc[2]) /\ BCommit(pc[1], MaxQueryCommits)
    \/ ~Queried /\ \E piece \in BoardPieces : BDropAnywhere(piece)

SpecDrop == BoardInit /\ [][DropNext]_vars

(***************************************************************************)
(* Timer scenarios: one Timer (kept in timers.gravity) of a duration from  *)
(* 1 to MaxDuration is ticked, paused, resumed and reset in any order.     *)
(* call records the operation, its dt, what tick returned (result) and the *)
(* time the timer has been running since it last finished or was reset     *)
(* (run).                                                                  *)
(***************************************************************************)
MaxDuration == 4
MaxTick == 5

TimerInit ==
    /\ \E d \in 1..MaxDuration :
          timers = [NewGameTimers(GravityInterval, LockDelay) EXCEPT !.gravity = NewTimer(d)]
    /\ width = GameWidth
    /\ height = GameHeight
    /\ state = NewBoardState(GameWidth, GameHeight)
    /\ backup_state = NewBoardState(GameWidth, GameHeight)
    /\ saved_state = None
    /\ game_state = GameState("Ready")
    /\ prev_game_state = None
    /\ rows_to_clear = None
    /\ active_piece = None
    /\ call = NoCall
    /\ ncalls = 0

TimerFrame ==
    UNCHANGED <<width, height, state, backup_state, saved_state, game_state,
                prev_game_state, rows_to_clear, active_piece, ncalls>>

\* timer.tick(dt)
TimerTick(dt) ==
    /\ LET r == tick(timers.gravity, dt)
       IN  /\ timers' = [timers EXCEPT !.gravity = r.timer]
           /\ call' = [NoCall EXCEPT !.op = "tick", !.dt = dt,
                                     !.result = IF r.fired THEN "true" ELSE "false",
                                     !.run = IF timers.gravity.paused THEN call.run
                                             ELSE IF r.fired THEN 0
                                             ELSE call.run + dt]
    /\ TimerFrame

\* timer.reset()
TimerReset ==
    /\ timers' = [timers EXCEPT !.gravity = reset(@)]
    /\ call' = [NoCall EXCEPT !.op = "reset", !.run = 0]
    /\ TimerFrame

\* timer.pause()
TimerPause ==
    /\ timers' = [timers EXCEPT !.gravity = pause(@)]
    /\ call' = [NoCall EXCEPT !.op = "pause", !.run = call.run]
    /\ TimerFrame

\* timer.resume()
TimerResume ==
    /\ timers' = [timers EXCEPT !.gravity = resume(@)]
    /\ call' = [NoCall EXCEPT !.op = "resume", !.run = call.run]
    /\ TimerFrame

TimerNext ==
    \/ \E dt \in 0..MaxTick : TimerTick(dt)
    \/ TimerReset
    \/ TimerPause
    \/ TimerResume

SpecTimer == TimerInit /\ [][TimerNext]_vars

(***************************************************************************)
(* Construction scenarios: Timer::new, Board::new and BoardInstance::new   *)
(* with arguments from zero upwards, then a tick or a query on the object  *)
(* constructed.  The constructors return Self, so each call ends in "Ok".  *)
(***************************************************************************)
MaxNewDim == 2
MaxNewDuration == 2

Constructed(op) == call' = [NoCall EXCEPT !.op = op, !.result = "Ok"]

\* Timer::new(duration)
TimerNew(duration) ==
    /\ timers' = [timers EXCEPT !.gravity = NewTimer(duration)]
    /\ Constructed("Timer::new")
    /\ TimerFrame

\* Board::new(w, h)
BoardNew(w, h) ==
    /\ width' = w
    /\ height' = h
    /\ state' = NewBoardState(w, h)
    /\ backup_state' = NewBoardState(w, h)
    /\ saved_state' = None
    /\ Constructed("Board::new")
    /\ UNCHANGED <<ncalls, InstanceVars>>

\* BoardInstance::new(id, location, w, h, cell_size, gravity_interval, lock_delay)
BoardInstanceNew(w, h, gravity_interval, lock_delay) ==
    /\ width' = w
    /\ height' = h
    /\ state' = NewBoardState(w, h)
    /\ backup_state' = NewBoardState(w, h)
    /\ saved_state' = None
    /\ game_state' = GameState("Ready")
    /\ prev_game_state' = None
    /\ timers' = NewGameTimers(gravity_interval, lock_delay)
    /\ rows_to_clear' = None
    /\ active_piece' = None
    /\ Constructed("BoardInstance::new")
    /\ UNCHANGED ncalls

NewNext ==
    \/ \E d \in 0..MaxNewDuration : TimerNew(d)
    \/ \E w \in 0..MaxNewDim, h \in 0..MaxNewDim : BoardNew(w, h)
    \/ \E w \in 0..MaxNewDim, h \in 0..MaxNewDim,
          g \in 0..MaxNewDuration, l \in 0..MaxNewDuration :
          BoardInstanceNew(w, h, g, l)
    \/ \E dt \in 0..MaxNewDuration : TimerTick(dt)
    \/ \E x \in 0..MaxNewDim, y \in 0..MaxNewDim : BIsCellFilled(BoardPosition(x, y))

SpecNew == BoardInit /\ [][NewNext]_vars

(***************************************************************************)
(* Rotation scenarios: a board built by commits, then one Rotate of an     *)
(* active piece of any type at any legal position and rotation.            *)
(***************************************************************************)
\* rotate_active_piece with piece as the active piece
BRotate(piece) ==
    /\ Legal(state, piece, piece.position)
    /\ SetInstance(rotate_active_piece([Instance EXCEPT !.active_piece = Some(piece)]))
    /\ call' = [NoCall EXCEPT !.op = "rotate_active_piece", !.piece = Some(piece),
                              !.pre = Some(state)]
    /\ UNCHANGED <<width, height, ncalls>>

RotNext ==
    \/ call.op # "rotate_active_piece" /\ \E pc \in BoardPlacements :
          Free(state, pc[2]) /\ BCommit(pc[1], MaxCommits)
    \/ call.op # "rotate_active_piece" /\ \E pc \in BoardPlacements :
          Free(state, pc[2]) /\ BRotate(pc[1])

SpecRot == BoardInit /\ [][RotNext]_vars

(***************************************************************************)
(* Turning scenarios: a piece of any type at any rotation index is turned  *)
(* up to MaxTurns times by PieceInstance::rotate; call.pre keeps the piece *)
(* as it started and call.arg the directions taken so far.                 *)
(***************************************************************************)
MaxTurns == 3

Turns == IF call.arg = None THEN <<>> ELSE call.arg[1]

TurnInit ==
    /\ \E typ \in PieceTypes :
          \E r \in 0..(rotation_count(typ) - 1) :
             LET piece == [NewPiece(typ, BoardPosition(0, 0)) EXCEPT !.rot_idx = r]
             IN  /\ active_piece = Some(piece)
                 /\ call = [NoCall EXCEPT !.pre = Some(piece)]
    /\ width = GameWidth
    /\ height = GameHeight
    /\ state = NewBoardState(GameWidth, GameHeight)
    /\ backup_state = NewBoardState(GameWidth, GameHeight)
    /\ saved_state = None
    /\ game_state = GameState("Falling")
    /\ prev_game_state = None
    /\ timers = NewGameTimers(GravityInterval, LockDelay)
    /\ rows_to_clear = None
    /\ ncalls = 0

\* piece.rotate(direction)
PRotate(direction) ==
    /\ Len(Turns) < MaxTurns
    /\ active_piece' = Some(rotate(active_piece[1], direction))
    /\ call' = [call EXCEPT !.op = "rotate", !.arg = Some(Append(Turns, direction))]
    /\ UNCHANGED <<width, height, state, backup_state, saved_state, game_state,
                   prev_game_state, timers, rows_to_clear, ncalls>>

TurnNext ==
    \/ PRotate("Cw")
    \/ PRotate("Ccw")

SpecTurn == TurnInit /\ [][TurnNext]_vars

(***************************************************************************)
(* Skirt scenarios: the turning scenarios, with the skirt of the piece     *)
(* asked for at any point; call.ret keeps the answer.                      *)
(***************************************************************************)
\* piece.typ.skirt(piece.rot_idx)
PSkirt ==
    /\ call.op # "skirt"
    /\ call' = [call EXCEPT !.op = "skirt",
                            !.ret = Some(skirt(active_piece[1].typ, active_piece[1].rot_idx))]
    /\ UNCHANGED <<width, height, state, backup_state, saved_state, game_state,
                   prev_game_state, timers, rows_to_clear, active_piece, ncalls>>

SkirtNext ==
    \/ TurnNext
    \/ PSkirt

SpecSkirt == TurnInit /\ [][SkirtNext]_vars

(***************************************************************************)
(* What the scores are meant to be, recomputed from the grid               *)
(***************************************************************************)
FilledAt(s, x, y) == s.grid[y * width + x]

CountRow(s, y) == Cardinality({x \in 0..(width - 1) : FilledAt(s, x, y)})

ColHeight(s, x) ==
    LET ys == {y \in 0..(height - 1) : FilledAt(s, x, y)}
    IN  IF ys = {} THEN 0 ELSE 1 + SetMax(ys)

ScoresConsistent(s) ==
    /\ \A y \in 0..(height - 1) : s.row_score[y] = CountRow(s, y)
    /\ \A x \in 0..(width - 1) : s.col_score[x] = ColHeight(s, x)

(***************************************************************************)
(* Claims about the Board                                                  *)
(***************************************************************************)
OutOfGrid(p) == p.x < 0 \/ p.y < 0 \/ p.x >= width \/ p.y >= height

PieceCell(piece, pos, k) == cell_pos(pos, cells(piece)[k])

\* what try_place is meant to report for piece at pos on s
ExpectedPlace(s, piece, pos) ==
    LET ks  == 1..Len(cells(piece))
        off == {k \in ks : \/ OutOfGrid(PieceCell(piece, pos, k))
                           \/ FilledAt(s, PieceCell(piece, pos, k).x,
                                          PieceCell(piece, pos, k).y)}
    IN  IF off # {}
        THEN IF OutOfGrid(PieceCell(piece, pos, SetMin(off)))
             THEN "OutOfBounds" ELSE "PlaceBad"
        ELSE IF \E y \in 0..(height - 1) :
                   LET mine == {k \in ks : PieceCell(piece, pos, k).y = y}
                   IN  mine # {} /\ CountRow(s, y) + Cardinality(mine) = width
             THEN "RowFilled" ELSE "PlaceOk"

\* C1: after any sequence of commits of legally placed pieces from the empty
\* board, row_score[y] is the number of filled cells of row y and col_score[x]
\* is 1 + the highest filled y of column x (0 for an empty column).
ThmC1 == call.op \in {"new", "commit_piece"} => ScoresConsistent(state)

WitC1 ==
    /\ call.op = "commit_piece"
    /\ ncalls >= 3
    /\ \E x \in 0..(width - 1) : state.col_score[x] >= 3
    /\ \E y \in 0..(height - 1) : state.row_score[y] = 3

\* C2: in every state reachable by update calls, GameOver, Frozen and Paused
\* included, row_score[y] is the number of filled cells of row y and
\* col_score[x] is 1 + the highest filled y of column x (0 if none).
InvC2 == ScoresConsistent(state)

\* C3: try_place reports OutOfBounds / PlaceBad exactly when a cell is outside
\* the grid / filled (the first offending cell in cell order decides which),
\* otherwise RowFilled exactly when the placement would complete a row, and
\* PlaceOk otherwise.
ThmC3 ==
    call.op = "try_place" => call.result = ExpectedPlace(state, call.piece[1], call.pos[1])

WitC3 ==
    /\ call.op = "try_place"
    /\ call.result = "RowFilled"
    /\ ncalls = 1

\* C4: try_place leaves grid, row_score, col_score and the saved snapshot as
\* they were, whatever it reports.
ThmC4 == [][call'.op = "try_place" => state' = state /\ saved_state' = saved_state]_vars

WitC4 ==
    /\ call.op = "try_place"
    /\ call.result = "RowFilled"
    /\ backup_state # state
    /\ \E y \in 0..(height - 1) : backup_state.row_score[y] = width

\* the effect commit_piece is meant to have: exactly the piece's cells become
\* filled, and the rows returned are, once each, the rows this commit completed
CommitEffect ==
    LET piece == call'.piece[1]
        newly == {y \in 0..(height - 1) :
                     CountRow(state', y) = width /\ CountRow(state, y) < width}
    IN  /\ \A x \in 0..(width - 1), y \in 0..(height - 1) :
              FilledAt(state', x, y) <=>
                  (FilledAt(state, x, y) \/ BoardPosition(x, y) \in board_positions(piece))
        /\ IF newly = {}
           THEN call'.rows = None
           ELSE /\ call'.rows # None
                /\ SeqRange(call'.rows[1]) = newly
                /\ Len(call'.rows[1]) = Cardinality(newly)

\* C5: commit_piece on a legally placed piece fills exactly its four cells and
\* returns Some(rows) with exactly the rows completed by this commit, once
\* each, or None when it completed no row.
ThmC5 == [][call'.op = "commit_piece" => CommitEffect]_vars

WitC5 ==
    /\ call.op = "commit_piece"
    /\ call.rows # None
    /\ Len(call.rows[1]) = 2

\* the rows of grid g outside R, bottom to top
RECURSIVE Survivors(_, _)
Survivors(R, y) ==
    IF y >= height THEN <<>>
    ELSE IF y \in R THEN Survivors(R, y + 1)
    ELSE <<y>> \o Survivors(R, y + 1)

\* the grid with the rows R removed and the rows above them moved down
CompactGrid(g, R) ==
    LET keep == Survivors(R, 0)
    IN  [i \in DOMAIN g |->
            IF (i \div width) + 1 <= Len(keep)
            THEN g[keep[(i \div width) + 1] * width + (i % width)]
            ELSE FALSE]

\* C6: clear_rows(R) removes the full rows R and moves every other row down by
\* the number of cleared rows below it.
InvC6 ==
    call.op = "clear_rows" =>
        state.grid = CompactGrid(call.pre[1].grid, SeqRange(call.rows[1]))

\* C7: after clear_rows on a board with consistent scores, row_score and
\* col_score are what recomputing them from the resulting grid gives.
ThmC7 == call.op = "clear_rows" => ScoresConsistent(state)

WitC7 ==
    /\ call.op = "clear_rows"
    /\ ScoresConsistent(call.pre[1])
    /\ Len(call.rows[1]) = 2
    /\ SetMax(SeqRange(call.rows[1])) - SetMin(SeqRange(call.rows[1])) = 2
    /\ state.grid # call.pre[1].grid

\* C8: when row 0 is the only row with filled cells and it is full, clearing
\* it leaves an empty grid with every score 0.
InvC8 ==
    (/\ call.op = "clear_rows"
     /\ call.rows[1] = <<0>>
     /\ \A y \in 0..(height - 1) :
           call.pre[1].row_score[y] = (IF y = 0 THEN width ELSE 0))
    => state = NewBoardState(width, height)

\* the lowest y reached from pos by one-row descents through legal positions
RECURSIVE DescentFloor(_, _, _)
DescentFloor(s, piece, pos) ==
    IF Legal(s, piece, BoardPosition(pos.x, pos.y - 1))
    THEN DescentFloor(s, piece, BoardPosition(pos.x, pos.y - 1))
    ELSE pos

\* C9: for a piece at a legal position calculate_drop returns the position, in
\* the same column, that repeated one-row descents end at.
ThmC9 ==
    call.op = "calculate_drop" =>
        call.pos[1] = DescentFloor(state, call.piece[1], call.piece[1].position)

\* a piece under an overhang that drops to a floor below the column heights
WitC9 ==
    /\ call.op = "calculate_drop"
    /\ is_below_overhang(state, call.piece[1])
    /\ call.pos[1].y < call.piece[1].position.y
    /\ \E p \in board_test_positions(call.piece[1], call.pos[1]) :
          p.y < state.col_score[p.x] - 1

ThmC11 ==
    [][/\ saved_state' = call'.pre
       /\ call'.op = "resume_state" =>
             state' = (IF call.pre = None THEN state ELSE call.pre[1])]_vars

\* a resume that undid mutations made after the save, on a board that was
\* not empty at the save
WitC11 ==
    /\ call.op = "resume_state"
    /\ call.result = "restored"
    /\ call.pre # None
    /\ state = call.pre[1]
    /\ state # NewBoardState(width, height)

\* C12: the game starts in Ready, and an update in Ready draws a piece, puts
\* it at its spawn position in rotation 0, and leaves the state Falling when
\* that placement is legal and GameOver when it is not; the board is not
\* touched and every timer has elapsed 0 afterwards.
ThmC12 ==
    /\ game_state = GameState("Ready")
    /\ [][game_state.tag = "Ready" =>
            /\ active_piece' # None
            /\ active_piece'[1].typ \in PieceTypes
            /\ active_piece'[1] = NewPiece(active_piece'[1].typ,
                                           spawn_pos(active_piece'[1].typ))
            /\ game_state' = (IF Legal(state, active_piece'[1], active_piece'[1].position)
                              THEN GameState("Falling") ELSE GameState("GameOver"))
            /\ \A n \in DOMAIN timers' : timers'[n].elapsed = 0
            /\ state' = state]_vars

\* a spawn inside the grid that hit filled cells: GameOver with the blocked
\* piece still active, as only the Ready arm leaves it
WitC12 ==
    /\ game_state.tag = "GameOver"
    /\ active_piece # None
    /\ InGrid(width, height, active_piece[1])
    /\ ~Legal(state, active_piece[1], active_piece[1].position)
    /\ \A n \in DOMAIN timers : timers[n].elapsed = 0

\* the timer finishes on a tick of dt
Elapses(t, dt) == ~t.paused /\ t.elapsed + dt >= t.duration

OneRowDown(piece) == BoardPosition(piece.position.x, piece.position.y - 1)

\* C13: a Falling update without input on which the gravity timer elapses
\* leaves the piece where it is and goes to Locking{now: false} when the
\* position one row lower is not legal; moves the piece one row down and goes
\* to Locking{now: true} when that position is legal and completes a row; and
\* otherwise moves it one row down and stays Falling.  Without the timer
\* elapsing the piece does not move.
ThmC13 ==
    [][(call'.op = "Falling" /\ call'.input = None /\ active_piece # None) =>
          LET piece == active_piece[1]
              down  == OneRowDown(piece)
              moved == Some([piece EXCEPT !.position = down])
          IN  IF ~Elapses(timers.gravity, call'.dt)
              THEN active_piece' = active_piece /\ game_state' = game_state
              ELSE IF ~Legal(state, piece, down)
              THEN /\ active_piece' = active_piece
                   /\ game_state'.tag = "Locking" /\ ~game_state'.now
              ELSE IF ExpectedPlace(state, piece, down) = "RowFilled"
              THEN /\ active_piece' = moved
                   /\ game_state'.tag = "Locking" /\ game_state'.now
              ELSE /\ active_piece' = moved
                   /\ game_state' = GameState("Falling")]_vars

\* gravity took the piece down into a position that completes a row
WitC13 ==
    /\ call.op = "Falling"
    /\ call.input = None
    /\ game_state = Locking(TRUE, FALSE)
    /\ active_piece # None
    /\ \E p \in board_positions(active_piece[1]) :
          CountRow(state, p.y) + Cardinality({q \in board_positions(active_piece[1]) :
                                                 q.y = p.y}) = width

\* the rows that are full in s2 and were not full in s1
NewlyFull(s1, s2) ==
    {y \in 0..(height - 1) : CountRow(s2, y) = width /\ CountRow(s1, y) < width}

\* C14: a Locking update with now = true commits the piece; and whenever a
\* Locking update commits the piece (at once, or because the lock timer
\* elapsed) the state afterwards is Clearing with rows_to_clear holding
\* exactly the rows the commit completed when there are any, and Ready with
\* no rows_to_clear when there are none; no piece is active afterwards.
ThmC14 ==
    [][(call'.op = "Locking" /\ active_piece # None) =>
          /\ (game_state.now \/ (call'.input = None /\ Elapses(timers.lock, call'.dt)))
                => active_piece' = None
          /\ active_piece' = None =>
                IF NewlyFull(state, state') = {}
                THEN game_state' = GameState("Ready") /\ rows_to_clear' = None
                ELSE /\ game_state' = GameState("Clearing")
                     /\ rows_to_clear' # None
                     /\ SeqRange(rows_to_clear'[1]) = NewlyFull(state, state')
                     /\ Len(rows_to_clear'[1]) = Cardinality(NewlyFull(state, state'))]_vars

\* a commit from Locking that completed a row
WitC14 ==
    /\ call.op = "Locking"
    /\ game_state = GameState("Clearing")
    /\ active_piece = None
    /\ rows_to_clear # None
    /\ \A k \in 1..Len(rows_to_clear[1]) : CountRow(state, rows_to_clear[1][k]) = width

\* C15: a piece that came into Locking{now: false} and has had no input since
\* is committed by an update exactly when the time it has spent in Locking,
\* this update's dt included, reaches the lock delay, and not before.
InvC15 ==
    [][(call'.op = "Locking" /\ call'.input = None /\ call.locking_for # None) =>
          (active_piece' = None <=>
              call.locking_for[1] + call'.dt >= timers.lock.duration)]_vars

\* the active piece of bi has a legal position one row below it
CanFall(bi) ==
    /\ bi.active_piece # None
    /\ Legal(bi.board.state, bi.active_piece[1], below(bi.active_piece[1]))

\* C16: when, in Locking{now: false}, the piece can legally move down one
\* row once the input is handled, the update leaves the game in Falling with
\* the piece still active and the gravity and lock timers at zero, so the
\* lock timer does not commit a piece that has a legal position below it.
InvC16 ==
    [][(/\ call'.op = "Locking"
        /\ ~game_state.now
        /\ CanFall(with_input(Instance, call'.input))) =>
          /\ game_state' = GameState("Falling")
          /\ active_piece' # None
          /\ timers'.gravity.elapsed = 0
          /\ timers'.lock.elapsed = 0]_vars

\* the clear-animation timer elapses in this Clearing update: Pause stops the
\* timers before the tick
ClearElapses(input, dt) ==
    input # Some("Pause") /\ Elapses(timers.clear_animation, dt)

\* C17: a Clearing update leaves the board and rows_to_clear alone until the
\* clear-animation timer elapses; the update on which it elapses removes
\* exactly the rows of rows_to_clear, moves the rows above them down, empties
\* rows_to_clear and goes to Ready; an input other than Pause changes neither
\* the game state, the board nor the piece.
InvC17 ==
    [][(call'.op = "Clearing" /\ rows_to_clear # None) =>
          IF ClearElapses(call'.input, call'.dt)
          THEN /\ state'.grid = CompactGrid(state.grid, SeqRange(rows_to_clear[1]))
               /\ rows_to_clear' = None
               /\ game_state' = GameState("Ready")
               /\ active_piece' = active_piece
          ELSE /\ state' = state
               /\ rows_to_clear' = rows_to_clear
               /\ active_piece' = active_piece
               /\ call'.input # Some("Pause") => game_state' = game_state]_vars

\* C18: a GameOver update commits the piece whose spawn was blocked and
\* leaves no active piece; it ends in GameOver, in Paused (only on a Pause
\* input) or in Frozen (only when the game-over time has run out); with no
\* input the time of every update counts towards the game-over duration and
\* the update on which it is reached ends in Frozen.
InvC18 ==
    [][call'.op = "GameOver" =>
          /\ active_piece' = None
          /\ \A x \in 0..(width - 1), y \in 0..(height - 1) :
                FilledAt(state', x, y) <=>
                    \/ FilledAt(state, x, y)
                    \/ /\ active_piece # None
                       /\ BoardPosition(x, y) \in board_positions(active_piece[1])
          /\ game_state'.tag \in {"GameOver", "Frozen", "Paused"}
          /\ game_state'.tag = "Paused" => call'.input = Some("Pause")
          /\ game_state'.tag = "Frozen" =>
                /\ call'.input # Some("Pause")
                /\ timers.game_over_animation.elapsed + call'.dt
                      >= timers.game_over_animation.duration
          /\ call'.input = None =>
                IF timers.game_over_animation.elapsed + call'.dt
                      >= timers.game_over_animation.duration
                THEN game_state' = GameState("Frozen")
                ELSE /\ game_state' = GameState("GameOver")
                     /\ timers'.game_over_animation.elapsed =
                           timers.game_over_animation.elapsed + call'.dt]_vars

\* the game is over for good: Frozen, or paused out of Frozen
AfterFrozen ==
    \/ game_state.tag = "Frozen"
    \/ game_state.tag = "Paused" /\ prev_game_state = Some(GameState("Frozen"))

\* C19: once Frozen, no update with any input takes the game to Ready,
\* Falling, Locking, Clearing or GameOver again, and the grid stays as it is.
InvC19 ==
    [][AfterFrozen =>
          /\ game_state'.tag \in {"Frozen", "Paused"}
          /\ state'.grid = state.grid]_vars

\* C20: a Paused update with no input or with L, R, Rotate or HardDrop
\* changes nothing: not the game state, the remembered state, the board, the
\* active piece, the rows to clear or the elapsed time of any timer.
ThmC20 ==
    [][(/\ call'.op = "Paused"
        /\ call'.input \in {None, Some("L"), Some("R"), Some("Rotate"), Some("HardDrop")}) =>
          /\ game_state' = game_state
          /\ prev_game_state' = prev_game_state
          /\ state' = state
          /\ backup_state' = backup_state
          /\ saved_state' = saved_state
          /\ active_piece' = active_piece
          /\ rows_to_clear' = rows_to_clear
          /\ \A n \in DOMAIN timers : timers'[n].elapsed = timers[n].elapsed]_vars

WitC20 ==
    /\ call.op = "Paused"
    /\ call.input = Some("HardDrop")
    /\ game_state.tag = "Paused"
    /\ prev_game_state = Some(GameState("Falling"))
    /\ active_piece # None
    /\ active_piece[1].position.y > 0
    /\ timers.gravity.elapsed > 0

(***************************************************************************)
(* Claims about pausing, hard drops, rotation, timers and the queries      *)
(***************************************************************************)
\* the states in which a game in play can be interrupted
Running == {"Falling", "Locking", "Clearing"}

\* C21: a game paused out of Falling, Locking or Clearing and, after any
\* number of updates that leave it paused, given Pause again is back in the
\* interrupted state (Locking with the same now and hard_drop), with the
\* board, the active piece and every timer's elapsed as they were when it was
\* paused, and every timer running.
ThmC21 ==
    [][(/\ call'.op = "Paused"
        /\ call'.input = Some("Pause")
        /\ call.pre # None
        /\ call.pre[1].game_state.tag \in Running) =>
          /\ game_state' = call.pre[1].game_state
          /\ state' = call.pre[1].board.state
          /\ active_piece' = call.pre[1].active_piece
          /\ rows_to_clear' = call.pre[1].rows_to_clear
          /\ \A n \in DOMAIN timers :
                /\ timers'[n].elapsed = call.pre[1].timers[n].elapsed
                /\ ~timers'[n].paused]_vars

WitC21 ==
    /\ call.op = "Paused"
    /\ call.input = Some("Pause")
    /\ game_state = Locking(FALSE, TRUE)
    /\ active_piece # None
    /\ timers.lock.elapsed > 0
    /\ ~timers.lock.paused

HardDropped(piece, r) ==
    /\ active_piece' = Some([piece EXCEPT !.position = r.pos])
    /\ r.pos.x = piece.position.x
    /\ game_state' = Locking(r.result = "RowFilled", TRUE)

\* C23: an update that handles HardDrop in Falling or Locking{now: false}
\* with an active piece ends with the piece at the landing position of
\* calculate_drop, in its column, and in Locking with hard_drop = true and
\* now = true iff the landing completes a row, whatever dt is.
InvC23 ==
    [][(/\ call'.op \in {"Falling", "Locking"}
        /\ call'.input = Some("HardDrop")
        /\ ~game_state.now
        /\ active_piece # None) =>
          HardDropped(active_piece[1], calculate_drop(Board, active_piece[1]))]_vars

\* the kick offsets the tables give a clockwise turn from rot_idx: the rows of
\* the 8-row tables alternate clockwise and counter-clockwise pairs
CwKicks(typ, rot_idx) ==
    CASE typ = "O" -> O_WALL_KICKS[1]
      [] typ = "I" -> I_WALL_KICKS[2 * rot_idx + 1]
      [] OTHER     -> JLSZT_WALL_KICKS[2 * rot_idx + 1]

Kicked(pos, kick) == BoardPosition(pos.x + kick[1], pos.y + kick[2])

\* what Rotate is meant to leave: the piece as it was when the turned
\* footprint is legal at none of the kicks, else turned one step clockwise
\* and moved by the first kick in table order at which it is legal
RotateEffect(s, p, q) ==
    LET turned == [p EXCEPT !.rot_idx = (p.rot_idx + 1) % 4]
        ks     == CwKicks(p.typ, p.rot_idx)
        legal  == {k \in 1..Len(ks) : Legal(s, turned, Kicked(p.position, ks[k]))}
    IN  /\ IF legal = {} THEN q = p
           ELSE q = [turned EXCEPT !.position = Kicked(p.position, ks[SetMin(legal)])]
        /\ Legal(s, turned, p.position) => q.position = p.position

\* C24: after Rotate the active piece is either as it was (no kick gives a
\* legal footprint) or one step further clockwise (mod 4) at its old
\* position plus the first kick, in table order for its category and
\* rotation pair, at which the turned footprint is legal; an unobstructed
\* turn keeps the position.
ThmC24 ==
    call.op = "rotate_active_piece" =>
        /\ active_piece # None
        /\ state = call.pre[1]
        /\ RotateEffect(state, call.piece[1], active_piece[1])

\* a turn that needed a kick other than the first
WitC24 ==
    /\ call.op = "rotate_active_piece"
    /\ active_piece[1].typ \in {"J", "L", "S", "Z", "T"}
    /\ call.piece[1].rot_idx = 1
    /\ active_piece[1].rot_idx = 2
    /\ active_piece[1].position # call.piece[1].position

\* C25: tick(dt) on a running timer returns true iff elapsed + dt reaches the
\* duration, and then leaves elapsed at 0, the excess dropped; otherwise it
\* returns false and elapsed has grown by dt; so elapsed stays below the
\* duration and a timer that has just finished finishes again only after
\* another full duration of ticks.
ThmC25 ==
    [][(call'.op = "tick" /\ ~timers.gravity.paused) =>
          /\ timers.gravity.elapsed < timers.gravity.duration
          /\ IF timers.gravity.elapsed + call'.dt >= timers.gravity.duration
             THEN call'.result = "true" /\ timers'.gravity.elapsed = 0
             ELSE /\ call'.result = "false"
                  /\ timers'.gravity.elapsed = timers.gravity.elapsed + call'.dt]_vars

\* a tick that finished the timer with time to spare
WitC25 ==
    /\ call.op = "tick"
    /\ call.result = "true"
    /\ call.dt < timers.gravity.duration
    /\ timers.gravity.elapsed = 0
    /\ timers.gravity.duration = MaxDuration

\* C26: tick(dt) on a paused timer returns false and leaves elapsed alone;
\* pause and resume do not touch elapsed, so a tick finishes the timer
\* exactly when the time it has been running since it last finished or was
\* reset, pauses left out, reaches the duration; reset leaves the paused
\* flag as it is.
ThmC26 ==
    [][/\ (call'.op = "tick" /\ timers.gravity.paused) =>
            call'.result = "false" /\ timers'.gravity = timers.gravity
       /\ call'.op = "tick" =>
            (call'.result = "true" <=>
                /\ ~timers.gravity.paused
                /\ call.run + call'.dt >= timers.gravity.duration)
       /\ call'.op = "pause" =>
            timers'.gravity = [timers.gravity EXCEPT !.paused = TRUE]
       /\ call'.op = "resume" =>
            timers'.gravity = [timers.gravity EXCEPT !.paused = FALSE]
       /\ call'.op = "reset" =>
            timers'.gravity = [timers.gravity EXCEPT !.elapsed = 0]]_vars

\* a paused timer, part of the way, ticked by more than it had left
WitC26 ==
    /\ call.op = "tick"
    /\ call.result = "false"
    /\ timers.gravity.paused
    /\ timers.gravity.elapsed > 0
    /\ timers.gravity.elapsed = call.run
    /\ timers.gravity.elapsed + call.dt > timers.gravity.duration

\* C27: row_score(y), col_score(x) and is_cell_filled(pos) answer None, None
\* and false for every coordinate outside the grid, negative ones included,
\* and the stored score or cell inside it; none of them changes the board.
ThmC27 ==
    /\ call.op \in {"row_score", "col_score", "is_cell_filled"} => Board = call.pre[1]
    /\ call.op = "row_score" =>
          call.ret[1] = (IF 0 <= call.arg[1] /\ call.arg[1] < height
                         THEN Some(state.row_score[call.arg[1]]) ELSE None)
    /\ call.op = "col_score" =>
          call.ret[1] = (IF 0 <= call.arg[1] /\ call.arg[1] < width
                         THEN Some(state.col_score[call.arg[1]]) ELSE None)
    /\ call.op = "is_cell_filled" =>
          call.ret[1] = (/\ ~OutOfGrid(call.arg[1])
                         /\ FilledAt(state, call.arg[1].x, call.arg[1].y))

\* a cell left of the grid, in a row that has filled cells, reported unfilled
WitC27 ==
    /\ call.op = "is_cell_filled"
    /\ call.arg[1].x < 0
    /\ call.arg[1].y \in 0..(height - 1)
    /\ state.row_score[call.arg[1].y] > 0
    /\ call.ret[1] = FALSE

\* C28: calculate_drop comes back with a position at which the piece can be
\* placed, for every piece type, rotation and position, also when a cell of
\* the piece is beside the grid or on a filled cell.
InvC28 ==
    call.op = "calculate_drop" =>
        /\ call.result \in {"PlaceOk", "RowFilled"}
        /\ call.pos # None

\* C29: a Timer of duration 0, and a Board or BoardInstance of width 0 or
\* height 0, is refused by its constructor.
InvC29 ==
    /\ call.op = "Timer::new" /\ timers.gravity.duration = 0 => call.result = "Err"
    /\ call.op \in {"Board::new", "BoardInstance::new"} /\ (width = 0 \/ height = 0)
          => call.result = "Err"

Opposite(direction) == IF direction = "Cw" THEN "Ccw" ELSE "Cw"

TwiceAndBack(direction) == Turns = <<direction, direction, Opposite(direction)>>

\* C30: two turns in one direction and then one turn in the opposite
\* direction leave the piece, of whatever type and starting rotation index r,
\* one step from r in the first direction: at (r + 1) mod rotation_count
\* after Cw, Cw, Ccw and at (r + rotation_count - 1) mod rotation_count
\* after Ccw, Ccw, Cw.
ThmC30 ==
    \A direction \in {"Cw", "Ccw"} :
        TwiceAndBack(direction) =>
            LET count == rotation_count(call.pre[1].typ)
                r == call.pre[1].rot_idx
            IN  /\ active_piece[1].typ = call.pre[1].typ
                /\ active_piece[1].rot_idx =
                       IF direction = "Cw" THEN (r + 1) % count
                       ELSE (r + count - 1) % count

\* a piece at rotation index 3 turned Cw, Cw, Ccw ends at index 0
WitC30 ==
    /\ TwiceAndBack("Cw")
    /\ call.pre[1].rot_idx = 3
    /\ active_piece[1].rot_idx = 0

\* C30 as stated: two turns in one direction and then one turn in the
\* opposite direction bring the rotation index back to r.
CexC30 ==
    \A direction \in {"Cw", "Ccw"} :
        TwiceAndBack(direction) => active_piece[1].rot_idx = call.pre[1].rot_idx

(***************************************************************************)
(* Spawn scenarios: a new game on an empty board of any size from 4 x 2 up *)
(* to the bounds; the first update spawns one of the seven pieces, and the *)
(* piece then falls with no input.                                         *)
(***************************************************************************)
MaxSpawnWidth == 7
MaxSpawnHeight == 5

SpawnDims == {<<w, h>> : w \in 4..MaxSpawnWidth, h \in 2..MaxSpawnHeight}

SpawnInit == \E d \in SpawnDims : NewInstance(d[1], d[2])

SpawnNext ==
    \/ ncalls = 0 /\ \E i \in 0..(Len(ALL) - 1) : UpdateReady(i)
    \/ \E dt \in Dts : UpdateFalling(dt, None)

SpecSpawn == SpawnInit /\ [][SpawnNext]_vars

(***************************************************************************)
(* Claims about the skirt, legality of the active piece, the timers'       *)
(* paused flags, progress, full rows, Pause, forced commits, sideways      *)
(* moves, the drop result and the spawn placement                          *)
(***************************************************************************)
XOffsets(cs) == {cs[k][1] : k \in 1..Len(cs)}

LeastOf(S) == CHOOSE a \in S : \A b \in S : a <= b

GreatestOf(S) == CHOOSE a \in S : \A b \in S : a >= b

\* C31: the skirt of a rotation is as long as the rotation is wide
\* (max_x - min_x + 1), and element i is the lowest y offset among the cells
\* at x offset min_x + i; each element is the y offset of some cell, so none
\* keeps the isize::MAX placeholder.
ThmC31 ==
    call.op = "skirt" =>
        LET cs == cells(active_piece[1])
            lo == LeastOf(XOffsets(cs))
            hi == GreatestOf(XOffsets(cs))
            sk == call.ret[1]
        IN  /\ Len(sk) = hi - lo + 1
            /\ \A i \in 1..Len(sk) :
                   /\ \E k \in 1..Len(cs) : cs[k][1] = lo + i - 1 /\ cs[k][2] = sk[i]
                   /\ \A k \in 1..Len(cs) : cs[k][1] = lo + i - 1 => sk[i] <= cs[k][2]
                   /\ sk[i] # ISIZE_MAX

\* the skirt of the upright I, whose cells all sit at x offset 2, is asked
\* for after a turn: one element, 0
WitC31 ==
    /\ call.op = "skirt"
    /\ Len(Turns) > 0
    /\ active_piece[1].typ = "I"
    /\ active_piece[1].rot_idx = 1
    /\ call.ret = Some(<<0>>)

PieceInPlay(tag) == tag \in {"Falling", "Locking"}

\* C32: while the game is Falling or Locking, or Paused out of one of them,
\* there is an active piece, all its cells are inside the grid and none is
\* on a filled cell of the board.
ThmC32 ==
    (\/ PieceInPlay(game_state.tag)
     \/ /\ game_state.tag = "Paused"
        /\ prev_game_state # None
        /\ PieceInPlay(prev_game_state[1].tag))
    => /\ active_piece # None
       /\ \A c \in 1..Len(cells(active_piece[1])) :
              LET p == cell_pos(active_piece[1].position, cells(active_piece[1])[c])
              IN  /\ ~OutOfGrid(p)
                  /\ ~state.grid[p.y * width + p.x]

\* a turned piece, hard-dropped onto a board with filled cells, and the game
\* paused while it locks
WitC32 ==
    /\ game_state.tag = "Paused"
    /\ prev_game_state = Some(Locking(FALSE, TRUE))
    /\ active_piece # None
    /\ active_piece[1].rot_idx # 0
    /\ \E i \in DOMAIN state.grid : state.grid[i]

\* C33: the timers are paused exactly when the game is Paused; outside
\* Paused, also after leaving it by SaveState or ResumeState, no timer of
\* the board is paused.
InvC33 ==
    \A n \in DOMAIN timers : timers[n].paused <=> game_state.tag = "Paused"

\* C34: once the player gives no more input and updates keep arriving with
\* a positive dt, a piece that is Falling or Locking is eventually committed:
\* the game reaches Ready or Clearing.
LiveC34 ==
    (Quiet /\ PieceInPlay(game_state.tag)) ~> (game_state.tag \in {"Ready", "Clearing"})

\* C35: whenever the game is Ready, Falling or Locking, no row of the board
\* is full: row_score[y] < width for every row y.
InvC35 ==
    game_state.tag \in {"Ready", "Falling", "Locking"} =>
        \A y \in 0..(height - 1) : state.row_score[y] < width

PauseLookedAt ==
    /\ call'.input = Some("Pause")
    /\ call'.op \in {"Falling", "Locking", "Clearing", "GameOver", "Frozen"}
    /\ ~(game_state.tag = "Locking" /\ game_state.now)

\* C36: an update that starts in Falling, Locking{now: false}, Clearing,
\* GameOver or Frozen and receives Pause ends in Paused, remembering the state
\* it started in; the piece and the board are as before the update, except
\* that in GameOver the piece has been committed to the board.
ThmC36 ==
    [][PauseLookedAt =>
          /\ game_state'.tag = "Paused"
          /\ prev_game_state' = Some(game_state)
          /\ IF game_state.tag = "GameOver"
             THEN /\ active_piece' = None
                  /\ state' = bi_commit_piece(Instance).bi.board.state
             ELSE /\ active_piece' = active_piece
                  /\ state' = state]_vars

\* Pause arrives in Locking with a frame time as long as the lock delay: the
\* game is Paused out of Locking and the piece is still active
WitC36 ==
    /\ call.op = "Locking"
    /\ call.input = Some("Pause")
    /\ call.dt >= LockDelay
    /\ game_state.tag = "Paused"
    /\ prev_game_state # None
    /\ prev_game_state[1].tag = "Locking"
    /\ active_piece # None

\* C37: an update that starts in Locking{now: true} commits the piece
\* whatever dt and the input are, and ends in Clearing, never in Ready: the
\* commit reports completed rows whenever try_place reported RowFilled.
ThmC37 ==
    [][(game_state.tag = "Locking" /\ game_state.now) =>
          /\ active_piece # None
          /\ active_piece' = None
          /\ state' = commit_piece(state, active_piece[1]).state
          /\ rows_to_clear' # None
          /\ game_state' = GameState("Clearing")]_vars

\* a forced commit made by an update that carried a player input
WitC37 ==
    /\ call.op = "Locking"
    /\ call.input # None
    /\ call.dt = 0
    /\ game_state.tag = "Clearing"
    /\ rows_to_clear # None
    /\ active_piece = None

Beside(piece, dx) == BoardPosition(piece.position.x + dx, piece.position.y)

\* C38: while a piece is in play, try_place one column to its left or to its
\* right never returns RowFilled, so a move sideways cannot complete a row
\* and an L or R input cannot send the game to Locking{now: true}.
ThmC38 ==
    (PieceInPlay(game_state.tag) /\ active_piece # None) =>
        \A dx \in {0 - 1, 1} :
            try_place(Board, active_piece[1], Beside(active_piece[1], dx)).result
                # "RowFilled"

CellsInRow(piece, y) ==
    Cardinality({k \in 1..Len(cells(piece)) : piece.position.y + cells(piece)[k][2] = y})

\* a piece in play that can move to a side, in a row with filled cells that
\* is one cell short of complete with the piece in it
WitC38 ==
    /\ PieceInPlay(game_state.tag)
    /\ active_piece # None
    /\ \E dx \in {0 - 1, 1} :
          try_place(Board, active_piece[1], Beside(active_piece[1], dx)).result = "PlaceOk"
    /\ \E y \in 0..(height - 1) :
          /\ CellsInRow(active_piece[1], y) > 0
          /\ state.row_score[y] > 0
          /\ state.row_score[y] + CellsInRow(active_piece[1], y) = width - 1

\* C39: the result calculate_drop returns with a landing position is the
\* result try_place gives for the piece at that position: RowFilled exactly
\* when landing there completes a row, also when the piece is under an
\* overhang and cannot go down from where it is.
InvC39 ==
    (call.op = "calculate_drop" /\ call.result # "NoReturn") =>
        try_place(Board, call.piece[1], call.pos[1]).result = call.result

\* the highest row a piece has a cell in
TopRow(piece) == GreatestOf({p.y : p \in board_positions(piece)})

\* C40: on an empty board at least 4 wide and 2 high the first update of a
\* new game ends in Falling, never in GameOver, whichever of the seven pieces
\* is drawn: the spawned piece has its four cells inside the grid and its top
\* cell in row height - 1.
InvC40 ==
    [][(game_state.tag = "Ready" /\ ncalls = 0 /\ width >= 4 /\ height >= 2) =>
          /\ game_state'.tag = "Falling"
          /\ active_piece' # None
          /\ InGrid(width, height, active_piece'[1])
          /\ TopRow(active_piece'[1]) = height - 1]_vars

====
